---------------------------- MODULE Spec2Model ----------------------------
(***************************************************************************)
(* Model of the multi-source text detection fusion engine of the           *)
(* PowerPoint OCR converter (src/src/lib).                                  *)
(*                                                                         *)
(* Numbers.  The code computes with IEEE doubles; the model computes with  *)
(* exact integers.  Canvas lengths (inches in the code) are counted in     *)
(* units of 1/960 inch, so that the constants of the code are whole        *)
(* numbers: 10 in = 9600, 5.625 in = 5400, 0.1 in = 96, 0.05 in = 48, and  *)
(* one pixel of the 1920 x 1080 reference image = 5.  An IoU is kept as    *)
(* the fraction [num, den] and compared exactly.                           *)
(***************************************************************************)
EXTENDS Integers, Sequences, FiniteSets, TLC

VARIABLES
    pc,         \* position of the running operation
    call,       \* the arguments of the function under evaluation
    ret,        \* its return value
    frame,      \* the local variables of the running slide detection
    calls,      \* the adapter calls completed so far, with their outcomes
    faults,     \* how many more failures the services may still produce
    settings,   \* the detection settings kept in localStorage
    conversion  \* the local variables of processConversion

vars == <<pc, call, ret, frame, calls, faults, settings, conversion>>

(***************************************************************************)
(* Bounds of the model.                                                    *)
(***************************************************************************)
MaxClaude == 2      \* longest content-aware list given to mergeDetections
MaxCraft == 2       \* longest geometry-only list given to mergeDetections
MaxElements == 3    \* longest list given to filterOverlappingDetections
MaxPlaced == 2      \* longest element list given to normalizeCoordinates
MaxRegions == 2     \* longest region list
MaxFaults == 3      \* failures the services may produce during one slide
MaxBoxes == 3       \* longest box list given to the grouping functions

(***************************************************************************)
(* Values.                                                                 *)
(***************************************************************************)
Undef == -1         \* an absent optional number (confidence_score?: number)
None == [none |-> TRUE]

Max(a, b) == IF a >= b THEN a ELSE b
Min(a, b) == IF a <= b THEN a ELSE b

SeqsUpTo(S, n) == UNION {[1..k -> S] : k \in 0..n}

\* The font fields of a text element; they are always copied together.
\* is_italic and is_underline are handled by the code exactly as is_bold,
\* align and vertical_align are the same in every element; is_bold stands
\* for them.
Style(family, size, color, bold) ==
    [font_family |-> family, font_size |-> size, font_color |-> color,
     is_bold |-> bold]

Plain == Style("Calibri", 18, "333333", FALSE)
Bold == Style("Calibri", 24, "333333", TRUE)

\* A text element: geometry, recognised content, style, confidence and the
\* detector that produced it.
Element(content, x, y, w, h, style, conf, source) ==
    [content |-> content, position_x |-> x, position_y |-> y, width |-> w,
     height |-> h, style |-> style, confidence_score |-> conf,
     detection_source |-> source]

BoxOf(e) == [x |-> e.position_x, y |-> e.position_y,
             width |-> e.width, height |-> e.height]

(***************************************************************************)
(* Exact fractions.                                                        *)
(***************************************************************************)
Zero == [num |-> 0, den |-> 1]

\* a/b < c/d for a, c >= 0 and b, d > 0, by the Euclidean expansion, so
\* that no product of two areas is formed.
RECURSIVE FracLt(_, _, _, _)
FracLt(a, b, c, d) ==
    LET q1 == a \div b
        q2 == c \div d
        r1 == a % b
        r2 == c % d
    IN  IF q1 # q2 THEN q1 < q2
        ELSE IF r2 = 0 THEN FALSE
        ELSE IF r1 = 0 THEN TRUE
        ELSE FracLt(d, r2, b, r1)

\* iou >= bestMatch.iou: the last of several equal candidates would win
IoUNotLess(f, g) == ~FracLt(f.num, f.den, g.num, g.den)

IoUGreater(f, g) == FracLt(g.num, g.den, f.num, f.den)

\* iou >= t for a threshold t = [num, den]
IoUAtLeast(f, t) == f.num * t.den >= t.num * f.den

\* iou > t
IoUAbove(f, t) == f.num * t.den > t.num * f.den

(***************************************************************************)
(* detection-merger.ts                                                     *)
(***************************************************************************)
\* an overlap ratio that divides by the sum of the areas
IoUOverSum(box1, box2) ==
    LET x1 == Max(box1.x, box2.x)
        y1 == Max(box1.y, box2.y)
        x2 == Min(box1.x + box1.width, box2.x + box2.width)
        y2 == Min(box1.y + box1.height, box2.y + box2.height)
        sum == box1.width * box1.height + box2.width * box2.height
    IN  IF x2 <= x1 \/ y2 <= y1 \/ sum = 0 THEN Zero
        ELSE [num |-> (x2 - x1) * (y2 - y1), den |-> sum]

\* an overlap ratio that divides by the area of the first box
IoUOverFirst(box1, box2) ==
    LET x1 == Max(box1.x, box2.x)
        y1 == Max(box1.y, box2.y)
        x2 == Min(box1.x + box1.width, box2.x + box2.width)
        y2 == Min(box1.y + box1.height, box2.y + box2.height)
    IN  IF x2 <= x1 \/ y2 <= y1 THEN Zero
        ELSE [num |-> (x2 - x1) * (y2 - y1),
              den |-> box1.width * box1.height]

calculateIoU(box1, box2) ==
    LET x1 == Max(box1.x, box2.x)
        y1 == Max(box1.y, box2.y)
        x2 == Min(box1.x + box1.width, box2.x + box2.width)
        y2 == Min(box1.y + box1.height, box2.y + box2.height)
        intersectionArea == (x2 - x1) * (y2 - y1)
        box1Area == box1.width * box1.height
        box2Area == box2.width * box2.height
        unionArea == box1Area + box2Area - intersectionArea
    IN  IF x2 <= x1 \/ y2 <= y1 THEN Zero
        ELSE IF unionArea = 0 THEN Zero
        ELSE [num |-> intersectionArea, den |-> unionArea]

ConfOrZero(e) == IF e.confidence_score = Undef THEN 0 ELSE e.confidence_score

\* mutant: the chosen CRAFT box is not marked as consumed
MarkMatchedForgets(craftMatched, index) == craftMatched

MarkMatched(craftMatched, index) == craftMatched \cup {index}

\* the inner loop of mergeDetections: the best unmatched CRAFT box for one
\* Claude element, None when no box reaches the threshold
RECURSIVE BestMatchFrom(_, _, _, _, _, _)
BestMatchFrom(claudeElement, craftElements, craftMatched, overlapThreshold, i, bestMatch) ==
    IF i > Len(craftElements) THEN bestMatch
    ELSE IF i \in craftMatched
    THEN BestMatchFrom(claudeElement, craftElements, craftMatched,
                       overlapThreshold, i + 1, bestMatch)
    ELSE LET iou == calculateIoU(BoxOf(claudeElement), BoxOf(craftElements[i]))
             better == IoUAtLeast(iou, overlapThreshold)
                       /\ (bestMatch = None \/ IoUGreater(iou, bestMatch.iou))
         IN  BestMatchFrom(claudeElement, craftElements, craftMatched,
                           overlapThreshold, i + 1,
                           IF better THEN [none |-> FALSE, index |-> i, iou |-> iou]
                           ELSE bestMatch)

BestMatch(claudeElement, craftElements, craftMatched, overlapThreshold) ==
    BestMatchFrom(claudeElement, craftElements, craftMatched, overlapThreshold,
                  1, None)

\* a merged element that keeps the rectangle of the geometry-only detector
\* and the larger of the two confidences as they are
MergedElementOfCraftBox(claudeElement, craftElement) ==
    [claudeElement EXCEPT
        !.position_x = craftElement.position_x,
        !.position_y = craftElement.position_y,
        !.width = craftElement.width,
        !.height = craftElement.height,
        !.confidence_score = Max(claudeElement.confidence_score,
                                 craftElement.confidence_score)]

\* the element pushed for a matched pair (detection-merger.ts:95-110)
MergedElement(claudeElement, craftElement) ==
    [claudeElement EXCEPT
        !.position_x = (claudeElement.position_x + craftElement.position_x) \div 2,
        !.position_y = (claudeElement.position_y + craftElement.position_y) \div 2,
        !.width = (claudeElement.width + craftElement.width) \div 2,
        !.height = (claudeElement.height + craftElement.height) \div 2,
        !.confidence_score = Max(ConfOrZero(claudeElement), ConfOrZero(craftElement))]

\* the outer loop of mergeDetections, from Claude element k on
RECURSIVE MergeFrom(_, _, _, _, _)
MergeFrom(claudeElements, craftElements, overlapThreshold, k, acc) ==
    IF k > Len(claudeElements) THEN acc
    ELSE LET claudeElement == claudeElements[k]
             bestMatch == BestMatch(claudeElement, craftElements,
                                    acc.craftMatched, overlapThreshold)
         IN  MergeFrom(claudeElements, craftElements, overlapThreshold, k + 1,
                IF bestMatch # None
                THEN [mergedElements |->
                          Append(acc.mergedElements,
                                 MergedElement(claudeElement,
                                               craftElements[bestMatch.index])),
                      craftMatched |-> MarkMatched(acc.craftMatched, bestMatch.index),
                      overlapCount |-> acc.overlapCount + 1]
                ELSE [acc EXCEPT !.mergedElements = Append(@, claudeElement)])

\* the CRAFT boxes no Claude element consumed, in their order
RECURSIVE UnmatchedFrom(_, _, _)
UnmatchedFrom(craftElements, craftMatched, i) ==
    IF i > Len(craftElements) THEN <<>>
    ELSE (IF i \in craftMatched THEN <<>> ELSE <<craftElements[i]>>)
         \o UnmatchedFrom(craftElements, craftMatched, i + 1)

mergeDetections(claudeElements, craftElements, overlapThreshold) ==
    LET acc == MergeFrom(claudeElements, craftElements, overlapThreshold, 1,
                         [mergedElements |-> <<>>, craftMatched |-> {},
                          overlapCount |-> 0])
        mergedElements == acc.mergedElements
                          \o UnmatchedFrom(craftElements, acc.craftMatched, 1)
    IN  [mergedElements |-> mergedElements,
         claudeOnlyCount |-> Len(claudeElements) - acc.overlapCount,
         craftOnlyCount |-> Len(craftElements) - acc.overlapCount,
         overlapCount |-> acc.overlapCount,
         mergedCount |-> Len(mergedElements)]

\* mutant: only an IoU strictly above the threshold counts as a duplicate
IsDuplicateStrict(e1, e2, overlapThreshold) ==
    IoUAbove(calculateIoU(BoxOf(e1), BoxOf(e2)), overlapThreshold)

\* the test of filterOverlappingDetections (detection-merger.ts:209-224)
IsDuplicate(e1, e2, overlapThreshold) ==
    IoUAtLeast(calculateIoU(BoxOf(e1), BoxOf(e2)), overlapThreshold)

\* an inner loop that removes the element with the smaller area and, on
\* equal areas, the one with the lower confidence
RECURSIVE FilterInnerByArea(_, _, _, _, _)
FilterInnerByArea(elements, overlapThreshold, i, j, toRemove) ==
    IF j > Len(elements) THEN toRemove
    ELSE IF j \in toRemove
    THEN FilterInnerByArea(elements, overlapThreshold, i, j + 1, toRemove)
    ELSE IF IsDuplicate(elements[i], elements[j], overlapThreshold)
    THEN LET area1 == elements[i].width * elements[i].height
             area2 == elements[j].width * elements[j].height
             keepsFirst == IF area1 # area2 THEN area1 > area2
                           ELSE ConfOrZero(elements[i]) >= ConfOrZero(elements[j])
         IN  FilterInnerByArea(elements, overlapThreshold, i, j + 1,
                               toRemove \cup {IF keepsFirst THEN j ELSE i})
    ELSE FilterInnerByArea(elements, overlapThreshold, i, j + 1, toRemove)

\* the inner loop of filterOverlappingDetections for a fixed i, from j on.
\* Element i is compared with every later element that is not yet removed,
\* also after i itself has been removed in this pass (toRemove.has(i) is
\* tested only when the outer loop reaches i).
RECURSIVE FilterInner(_, _, _, _, _)
FilterInner(elements, overlapThreshold, i, j, toRemove) ==
    IF j > Len(elements) THEN toRemove
    ELSE IF j \in toRemove
    THEN FilterInner(elements, overlapThreshold, i, j + 1, toRemove)
    ELSE IF IsDuplicate(elements[i], elements[j], overlapThreshold)
    THEN LET keepIndex == IF ConfOrZero(elements[i]) >= ConfOrZero(elements[j])
                          THEN i ELSE j
             removeIndex == IF keepIndex = i THEN j ELSE i
         IN  FilterInner(elements, overlapThreshold, i, j + 1,
                         toRemove \cup {removeIndex})
    ELSE FilterInner(elements, overlapThreshold, i, j + 1, toRemove)

RECURSIVE FilterOuter(_, _, _, _)
FilterOuter(elements, overlapThreshold, i, toRemove) ==
    IF i > Len(elements) THEN toRemove
    ELSE IF i \in toRemove
    THEN FilterOuter(elements, overlapThreshold, i + 1, toRemove)
    ELSE FilterOuter(elements, overlapThreshold, i + 1,
                     FilterInner(elements, overlapThreshold, i, i + 1, toRemove))

RECURSIVE KeepFrom(_, _, _)
KeepFrom(elements, toRemove, i) ==
    IF i > Len(elements) THEN <<>>
    ELSE (IF i \in toRemove THEN <<>> ELSE <<elements[i]>>)
         \o KeepFrom(elements, toRemove, i + 1)

filterOverlappingDetections(elements, overlapThreshold) ==
    KeepFrom(elements, FilterOuter(elements, overlapThreshold, 1, {}), 1)

(***************************************************************************)
(* layout-placement.ts                                                     *)
(***************************************************************************)
SLIDE_WIDTH == 9600     \* 10 in
SLIDE_HEIGHT == 5400    \* 5.625 in
RefWidth == 1920        \* the pixel width the placement code divides by
RefHeight == 1080       \* the pixel height the placement code divides by
MinSize == 96           \* 0.1 in
AlignMargin == 48       \* 0.05 in

\* A layout region, in pixels of the slide image.
Region(type, x, y, w, h, conf, containsText) ==
    [type |-> type, x |-> x, y |-> y, width |-> w, height |-> h,
     confidence |-> conf, contains_text |-> containsText]

\* regionXInches, regionYInches, regionWidthInches, regionHeightInches
RegionInches(region) ==
    [x |-> (region.x * SLIDE_WIDTH) \div RefWidth,
     y |-> (region.y * SLIDE_HEIGHT) \div RefHeight,
     width |-> (region.width * SLIDE_WIDTH) \div RefWidth,
     height |-> (region.height * SLIDE_HEIGHT) \div RefHeight]

\* a containment test that leaves out the region's boundary
CenterStrictlyInRegion(element, region) ==
    LET r == [x |-> (region.x * SLIDE_WIDTH) \div RefWidth,
              y |-> (region.y * SLIDE_HEIGHT) \div RefHeight,
              width |-> (region.width * SLIDE_WIDTH) \div RefWidth,
              height |-> (region.height * SLIDE_HEIGHT) \div RefHeight]
        elementCenterX2 == 2 * element.position_x + element.width
        elementCenterY2 == 2 * element.position_y + element.height
    IN  /\ elementCenterX2 > 2 * r.x
        /\ elementCenterX2 < 2 * (r.x + r.width)
        /\ elementCenterY2 > 2 * r.y
        /\ elementCenterY2 < 2 * (r.y + r.height)

\* the test of findContainingRegion; the centre x + width / 2 is compared
\* doubled, so that it stays a whole number
CenterInRegion(element, region) ==
    LET r == RegionInches(region)
        elementCenterX2 == 2 * element.position_x + element.width
        elementCenterY2 == 2 * element.position_y + element.height
    IN  /\ elementCenterX2 >= 2 * r.x
        /\ elementCenterX2 <= 2 * (r.x + r.width)
        /\ elementCenterY2 >= 2 * r.y
        /\ elementCenterY2 <= 2 * (r.y + r.height)

\* the index of the first region containing the element's centre, 0 for null
RECURSIVE FindContainingFrom(_, _, _)
FindContainingFrom(element, regions, k) ==
    IF k > Len(regions) THEN 0
    ELSE IF CenterInRegion(element, regions[k]) THEN k
    ELSE FindContainingFrom(element, regions, k + 1)

findContainingRegion(element, regions) == FindContainingFrom(element, regions, 1)

\* Math.max(0.1, clampedWidth), Math.max(0.1, clampedHeight)
FinalSize(clamped) == Max(MinSize, clamped)

normalizeWithinRegion(element, region) ==
    LET r == RegionInches(region)
        clampedX == Max(r.x, Min(element.position_x, r.x + r.width - element.width))
        clampedY == Max(r.y, Min(element.position_y, r.y + r.height - element.height))
        clampedWidth == Min(element.width, r.width - (clampedX - r.x))
        clampedHeight == Min(element.height, r.height - (clampedY - r.y))
    IN  [element EXCEPT !.position_x = clampedX,
                        !.position_y = clampedY,
                        !.width = FinalSize(clampedWidth),
                        !.height = FinalSize(clampedHeight)]

normalizeCoordinates(textElements, regions) ==
    [idx \in 1..Len(textElements) |->
        LET element == textElements[idx]
            containingRegion == findContainingRegion(element, regions)
        IN  IF containingRegion # 0
            THEN normalizeWithinRegion(element, regions[containingRegion])
            ELSE element]

alignElement(element, regions) ==
    LET k == findContainingRegion(element, regions)
        r == RegionInches(regions[k])
        relativeX == element.position_x - r.x
        relativeY == element.position_y - r.y
        rightEdgeDistance == (r.x + r.width) - (element.position_x + element.width)
        bottomEdgeDistance == (r.y + r.height) - (element.position_y + element.height)
        leftX == IF relativeX < AlignMargin THEN r.x + AlignMargin
                 ELSE element.position_x
        topY == IF relativeY < AlignMargin THEN r.y + AlignMargin
                ELSE element.position_y
    IN  IF k = 0 THEN element
        ELSE [element EXCEPT
                !.position_x =
                    IF rightEdgeDistance < AlignMargin /\ rightEdgeDistance > 0
                    THEN r.x + r.width - element.width - AlignMargin
                    ELSE leftX,
                !.position_y =
                    IF bottomEdgeDistance < AlignMargin /\ bottomEdgeDistance > 0
                    THEN r.y + r.height - element.height - AlignMargin
                    ELSE topY]

alignElementsWithinRegions(textElements, regions) ==
    [idx \in 1..Len(textElements) |-> alignElement(textElements[idx], regions)]

(***************************************************************************)
(* The adapters' parsers.  A raw value is what the service's JSON holds; a *)
(* number that is absent and the number 0 are both falsy for the code's    *)
(* `v || d`, and 0 stands for both here, as "" does for strings.           *)
(***************************************************************************)
OrDefault(v, d) == IF v = 0 THEN d ELSE v
OrDefaultText(v, d) == IF v = "" THEN d ELSE v

NoSource == "undefined"     \* detection_source not set

\* pixelsToInches(pixels, imageSize, slideSize), the result in canvas units
pixelsToInches(pixels, imageSize, slideSize) ==
    IF imageSize = 0 THEN 0 ELSE (pixels * slideSize) \div imageSize

\* layout-detector.ts: calculateRegionIoU
calculateRegionIoU(region1, region2) ==
    LET x1 == Max(region1.x, region2.x)
        y1 == Max(region1.y, region2.y)
        x2 == Min(region1.x + region1.width, region2.x + region2.width)
        y2 == Min(region1.y + region1.height, region2.y + region2.height)
        intersectionArea == (x2 - x1) * (y2 - y1)
        unionArea == region1.width * region1.height
                     + region2.width * region2.height - intersectionArea
    IN  IF x2 <= x1 \/ y2 <= y1 THEN Zero
        ELSE IF unionArea = 0 THEN Zero
        ELSE [num |-> intersectionArea, den |-> unionArea]

RegionDedupThreshold == [num |-> 7, den |-> 10]

\* deduplicateRegions: of two regions with IoU > 0.7 the smaller one goes
RECURSIVE DedupInner(_, _, _, _)
DedupInner(regions, i, j, toRemove) ==
    IF j > Len(regions) THEN toRemove
    ELSE IF j \in toRemove THEN DedupInner(regions, i, j + 1, toRemove)
    ELSE IF IoUAbove(calculateRegionIoU(regions[i], regions[j]),
                     RegionDedupThreshold)
    THEN LET largerRegion ==
                 IF regions[i].width * regions[i].height
                    >= regions[j].width * regions[j].height THEN i ELSE j
             smallerRegion == IF largerRegion = i THEN j ELSE i
         IN  DedupInner(regions, i, j + 1, toRemove \cup {smallerRegion})
    ELSE DedupInner(regions, i, j + 1, toRemove)

RECURSIVE DedupOuter(_, _, _)
DedupOuter(regions, i, toRemove) ==
    IF i > Len(regions) THEN toRemove
    ELSE IF i \in toRemove THEN DedupOuter(regions, i + 1, toRemove)
    ELSE DedupOuter(regions, i + 1, DedupInner(regions, i, i + 1, toRemove))

deduplicateRegions(regions) ==
    KeepFrom(regions, DedupOuter(regions, 1, {}), 1)

MinPixels == 10             \* Math.max(10, ...) of the parsers

\* parseLayoutResponse on the regions of a well-formed payload
ParsedRegion(region, imageWidth, imageHeight) ==
    LET x == Max(0, Min(region.x, imageWidth))
        y == Max(0, Min(region.y, imageHeight))
    IN  Region(OrDefaultText(region.type, "text_box"), x, y,
               Max(MinPixels, Min(OrDefault(region.width, 100), imageWidth - x)),
               Max(MinPixels, Min(OrDefault(region.height, 50), imageHeight - y)),
               OrDefault(region.confidence, 80),
               region.contains_text)

parseLayoutResponse(rawRegions, imageWidth, imageHeight) ==
    deduplicateRegions([k \in 1..Len(rawRegions) |->
                           ParsedRegion(rawRegions[k], imageWidth, imageHeight)])

\* Math.max(8, Math.min(72, fontSize || d))
ParsedStyle(text, defaultSize) ==
    Style(OrDefaultText(text.fontFamily, "Arial"),
          Max(8, Min(72, OrDefault(text.fontSize, defaultSize))),
          OrDefaultText(text.fontColor, "000000"),
          text.isBold)

\* region-ocr.ts: parseRegionOCRResponse, one text of a well-formed payload
RegionText(text, region, imageWidth, imageHeight) ==
    LET pixelX == Max(region.x, Min(OrDefault(text.x, region.x),
                                    region.x + region.width))
        pixelY == Max(region.y, Min(OrDefault(text.y, region.y),
                                    region.y + region.height))
        pixelWidth == Max(MinPixels, Min(OrDefault(text.width, 100),
                                         (region.x + region.width) - pixelX))
        pixelHeight == Max(MinPixels, Min(OrDefault(text.height, 20),
                                          (region.y + region.height) - pixelY))
    IN  Element(text.content,
                pixelsToInches(pixelX, imageWidth, SLIDE_WIDTH),
                pixelsToInches(pixelY, imageHeight, SLIDE_HEIGHT),
                pixelsToInches(pixelWidth, imageWidth, SLIDE_WIDTH),
                pixelsToInches(pixelHeight, imageHeight, SLIDE_HEIGHT),
                ParsedStyle(text, 14),
                OrDefault(text.confidence, 80),
                NoSource)

parseRegionOCRResponse(rawTexts, region, imageWidth, imageHeight) ==
    [k \in 1..Len(rawTexts) |->
        RegionText(rawTexts[k], region, imageWidth, imageHeight)]

(***************************************************************************)
(* coordinate-validator.ts and the direct text analysis (claude-vision.ts, *)
(* kept in hybrid-detector.ts from line 367 on).                           *)
(***************************************************************************)
validateInchCoordinates(x, y, width, height) ==
    /\ ~(x < 0 \/ x > SLIDE_WIDTH)
    /\ ~(y < 0 \/ y > SLIDE_HEIGHT)
    /\ ~(width <= 0 \/ width > SLIDE_WIDTH)
    /\ ~(height <= 0 \/ height > SLIDE_HEIGHT)
    /\ ~(x + width > SLIDE_WIDTH)
    /\ ~(y + height > SLIDE_HEIGHT)

\* a clamp that takes the overflow off the width before the origin is clamped
ClampShrinksByOverflow(x, y, width, height) ==
    [x |-> Max(0, Min(x, SLIDE_WIDTH)), y |-> Max(0, Min(y, SLIDE_HEIGHT)),
     width |-> Max(MinSize, width - Max(0, x + width - SLIDE_WIDTH)),
     height |-> Max(MinSize, height - Max(0, y + height - SLIDE_HEIGHT))]

clampToSlideBounds(x, y, width, height) ==
    LET clampedX == Max(0, Min(x, SLIDE_WIDTH))
        clampedY == Max(0, Min(y, SLIDE_HEIGHT))
        maxWidth == SLIDE_WIDTH - clampedX
        maxHeight == SLIDE_HEIGHT - clampedY
    IN  [x |-> clampedX, y |-> clampedY,
         width |-> Max(MinSize, Min(width, maxWidth)),
         height |-> Max(MinSize, Min(height, maxHeight))]

\* coordinate-utils.ts (src/unnamed/part_004), the same clamp with the canvas
\* as parameters that default to 10 x 5.625
clampCoordinates(x, y, width, height, maxWidth, maxHeight) ==
    LET clampedX == Max(0, Min(x, maxWidth))
        clampedY == Max(0, Min(y, maxHeight))
    IN  [x |-> clampedX, y |-> clampedY,
         width |-> Max(MinSize, Min(width, maxWidth - clampedX)),
         height |-> Max(MinSize, Min(height, maxHeight - clampedY))]

\* parseTextResponse, one text of a well-formed payload
SlideText(text, imageWidth, imageHeight) ==
    LET pixelX == Max(0, Min(text.x, imageWidth))
        pixelY == Max(0, Min(text.y, imageHeight))
        pixelWidth == Max(MinPixels, Min(OrDefault(text.width, 100),
                                         imageWidth - pixelX))
        pixelHeight == Max(MinPixels, Min(OrDefault(text.height, 20),
                                          imageHeight - pixelY))
        posX == pixelsToInches(pixelX, imageWidth, SLIDE_WIDTH)
        posY == pixelsToInches(pixelY, imageHeight, SLIDE_HEIGHT)
        width == pixelsToInches(pixelWidth, imageWidth, SLIDE_WIDTH)
        height == pixelsToInches(pixelHeight, imageHeight, SLIDE_HEIGHT)
        clamped == IF validateInchCoordinates(posX, posY, width, height)
                   THEN [x |-> posX, y |-> posY, width |-> width,
                         height |-> height]
                   ELSE clampToSlideBounds(posX, posY, width, height)
    IN  Element(text.content, clamped.x, clamped.y, clamped.width,
                clamped.height, ParsedStyle(text, 14),
                OrDefault(text.confidence, 80), NoSource)

parseTextResponse(rawTexts, imageWidth, imageHeight) ==
    [k \in 1..Len(rawTexts) |-> SlideText(rawTexts[k], imageWidth, imageHeight)]

(***************************************************************************)
(* The geometry-only detectors: craft-detector.ts (kept in                 *)
(* settings-service.ts from line 54 on) and dbnet-detector.ts.  A box is   *)
(* in pixels; its confidence, a number in [0, 1] in the code, is counted   *)
(* in thousandths, a rotation angle in tenths of a degree.                 *)
(***************************************************************************)
Box(x, y, w, h, conf, text, angle) ==
    [x |-> x, y |-> y, width |-> w, height |-> h, confidence |-> conf,
     text |-> text, rotation_angle |-> angle]

\* the comparator of both grouping functions
CompareBoxes(a, b) ==
    LET yDiff == a.y - b.y
    IN  IF yDiff > 10 \/ yDiff < -10 THEN yDiff ELSE a.x - b.x

\* Array.prototype.sort, a stable sort, as an insertion sort
RECURSIVE InsertBox(_, _)
InsertBox(sorted, box) ==
    IF sorted = <<>> THEN <<box>>
    ELSE LET last == sorted[Len(sorted)]
         IN  IF CompareBoxes(last, box) > 0
             THEN Append(InsertBox(SubSeq(sorted, 1, Len(sorted) - 1), box), last)
             ELSE Append(sorted, box)

RECURSIVE SortBoxesFrom(_, _, _)
SortBoxesFrom(boxes, k, sorted) ==
    IF k > Len(boxes) THEN sorted
    ELSE SortBoxesFrom(boxes, k + 1, InsertBox(sorted, boxes[k]))

SortBoxes(boxes) == SortBoxesFrom(boxes, 1, <<>>)

\* a group that grows to the right only
GrownBoxRightOnly(current, box) ==
    [current EXCEPT
        !.width = Max(current.x + current.width, box.x + box.width) - current.x,
        !.confidence = Max(current.confidence, box.confidence)]

\* the bounding box of the current group and one more box
GrownBox(current, box) ==
    LET newRight == Max(current.x + current.width, box.x + box.width)
        newBottom == Max(current.y + current.height, box.y + box.height)
        x == Min(current.x, box.x)
        y == Min(current.y, box.y)
    IN  [current EXCEPT !.x = x, !.y = y, !.width = newRight - x,
                        !.height = newBottom - y,
                        !.confidence = Max(current.confidence, box.confidence)]

\* mergeCharacterBoxesToWords: verticalOverlap > avgHeight * 0.5 and
\* horizontalGap < avgHeight * 0.5, both sides multiplied by 4
SameWord(currentWord, box) ==
    LET verticalOverlap == Min(currentWord.y + currentWord.height,
                               box.y + box.height)
                           - Max(currentWord.y, box.y)
        heights == currentWord.height + box.height
        horizontalGap == box.x - (currentWord.x + currentWord.width)
    IN  4 * verticalOverlap > heights /\ 4 * horizontalGap < heights

RECURSIVE WordsFrom(_, _, _, _)
WordsFrom(sortedBoxes, k, words, currentWord) ==
    IF k > Len(sortedBoxes) THEN Append(words, currentWord)
    ELSE IF SameWord(currentWord, sortedBoxes[k])
    THEN WordsFrom(sortedBoxes, k + 1, words,
                   GrownBox(currentWord, sortedBoxes[k]))
    ELSE WordsFrom(sortedBoxes, k + 1, Append(words, currentWord),
                   sortedBoxes[k])

mergeCharacterBoxesToWords(boxes) ==
    IF Len(boxes) = 0 THEN <<>>
    ELSE LET sortedBoxes == SortBoxes(boxes)
         IN  WordsFrom(sortedBoxes, 2, <<>>, sortedBoxes[1])

\* dbnet-detector.ts: normalizeAngle, in tenths of a degree
RECURSIVE normalizeAngle(_)
normalizeAngle(angle) ==
    IF angle > 1800 THEN normalizeAngle(angle - 3600)
    ELSE IF angle < -1800 THEN normalizeAngle(angle + 3600)
    ELSE angle

Abs(n) == IF n < 0 THEN -n ELSE n

calculateVerticalOverlap(box1, box2) ==
    LET overlapTop == Max(box1.y, box2.y)
        overlapBottom == Min(box1.y + box1.height, box2.y + box2.height)
    IN  Max(0, overlapBottom - overlapTop)

\* the widths of the boxes in ascending order
RECURSIVE InsertWidth(_, _)
InsertWidth(sorted, w) ==
    IF sorted = <<>> THEN <<w>>
    ELSE LET last == sorted[Len(sorted)]
         IN  IF last > w
             THEN Append(InsertWidth(SubSeq(sorted, 1, Len(sorted) - 1), w), last)
             ELSE Append(sorted, w)

RECURSIVE SortedWidths(_, _, _)
SortedWidths(boxes, k, sorted) ==
    IF k > Len(boxes) THEN sorted
    ELSE SortedWidths(boxes, k + 1, InsertWidth(sorted, boxes[k].width))

\* estimateMedianCharWidth: medianWidth / max(1, medianWidth / 12), kept
\* between 8 and 20
estimateMedianCharWidth(boxes) ==
    IF Len(boxes) = 0 THEN 12
    ELSE LET widths == SortedWidths(boxes, 1, <<>>)
             medianWidth == widths[(Len(widths) \div 2) + 1]
             estimatedCharWidth == IF medianWidth > 12
                                   THEN (medianWidth * 12) \div medianWidth
                                   ELSE medianWidth
         IN  Max(8, Min(20, estimatedCharWidth))

AngleOrZero(box) == IF box.rotation_angle = Undef THEN 0 ELSE box.rotation_angle

\* the three tests of mergeBoxesToLines that start a new line: angleDiff >
\* 0.8, overlapRatio < 0.6 and horizontalGap > 0.6 * medianCharWidth
StartsNewLine(currentLine, box, medianCharWidth) ==
    LET angleDiff == Abs(normalizeAngle(AngleOrZero(currentLine) - AngleOrZero(box)))
        verticalOverlap == calculateVerticalOverlap(currentLine, box)
        heights == currentLine.height + box.height
        horizontalGap == box.x - (currentLine.x + currentLine.width)
    IN  \/ angleDiff > 8
        \/ 10 * verticalOverlap < 3 * heights
        \/ 5 * horizontalGap > 3 * medianCharWidth

GrownLine(currentLine, box) ==
    [GrownBox(currentLine, box) EXCEPT
        !.rotation_angle =
            IF currentLine.rotation_angle # Undef /\ box.rotation_angle # Undef
            THEN (currentLine.rotation_angle + box.rotation_angle) \div 2
            ELSE currentLine.rotation_angle]

RECURSIVE LinesFrom(_, _, _, _, _)
LinesFrom(sortedBoxes, k, lines, currentLine, medianCharWidth) ==
    IF k > Len(sortedBoxes) THEN Append(lines, currentLine)
    ELSE IF StartsNewLine(currentLine, sortedBoxes[k], medianCharWidth)
    THEN LinesFrom(sortedBoxes, k + 1, Append(lines, currentLine),
                   sortedBoxes[k], medianCharWidth)
    ELSE LinesFrom(sortedBoxes, k + 1, lines,
                   GrownLine(currentLine, sortedBoxes[k]), medianCharWidth)

mergeBoxesToLines(boxes) ==
    IF Len(boxes) = 0 THEN <<>>
    ELSE LET sortedBoxes == SortBoxes(boxes)
         IN  LinesFrom(sortedBoxes, 2, <<>>, sortedBoxes[1],
                       estimateMedianCharWidth(sortedBoxes))

\* Math.round(Math.min(72, Math.max(8, height * 72 * 0.7))) for a height in
\* canvas units: height * 50.4 / 960 = height * 21 / 400
EstimatedFontSize(height) == Min(72, Max(8, (42 * height + 400) \div 800))

\* Math.round(box.confidence * 100) for a confidence in thousandths
RoundedConfidence(confidence) == (confidence + 5) \div 10

\* convertCraftBoxToCoordinates, convertDBNetBoxToCoordinates
convertBoxToCoordinates(box, imageWidth, imageHeight) ==
    [x |-> pixelsToInches(box.x, imageWidth, SLIDE_WIDTH),
     y |-> pixelsToInches(box.y, imageHeight, SLIDE_HEIGHT),
     width |-> pixelsToInches(box.width, imageWidth, SLIDE_WIDTH),
     height |-> pixelsToInches(box.height, imageHeight, SLIDE_HEIGHT)]

TextLabel(index) == "[Text " \o ToString(index) \o "]"
RegionLabel(index) == "[Region " \o ToString(index) \o "]"

\* one element of convertCraftBoxesToTextElements (source NoSource, content
\* box.text || label) and of convertDBNetBoxesToTextElements (source
\* "dbnet", content the label)
ConvertedBox(box, index, imageWidth, imageHeight, useDBNet) ==
    LET c == convertBoxToCoordinates(box, imageWidth, imageHeight)
    IN  Element(IF useDBNet THEN TextLabel(index)
                ELSE OrDefaultText(box.text, TextLabel(index)),
                c.x, c.y, c.width, c.height,
                Style("Arial", EstimatedFontSize(c.height), "000000", FALSE),
                RoundedConfidence(box.confidence),
                IF useDBNet THEN "dbnet" ELSE NoSource)

convertCraftBoxesToTextElements(boxes, imageWidth, imageHeight) ==
    [k \in 1..Len(boxes) |->
        ConvertedBox(boxes[k], k, imageWidth, imageHeight, FALSE)]

convertDBNetBoxesToTextElements(boxes, imageWidth, imageHeight) ==
    [k \in 1..Len(boxes) |->
        ConvertedBox(boxes[k], k, imageWidth, imageHeight, TRUE)]

(***************************************************************************)
(* detection-merger.ts: enrichment and statistics.                         *)
(***************************************************************************)
\* an enrichment that takes the last Claude element reaching the threshold
RECURSIVE EnrichFromLast(_, _, _, _)
EnrichFromLast(craftElement, claudeElements, overlapThreshold, k) ==
    IF k > Len(claudeElements) THEN craftElement
    ELSE LET later == EnrichFromLast(craftElement, claudeElements,
                                     overlapThreshold, k + 1)
         IN  IF later # craftElement THEN later
             ELSE IF IoUAtLeast(calculateIoU(BoxOf(craftElement),
                                             BoxOf(claudeElements[k])),
                                overlapThreshold)
             THEN [craftElement EXCEPT !.content = claudeElements[k].content,
                                       !.style = claudeElements[k].style]
             ELSE craftElement

\* the first Claude element whose IoU with the box reaches the threshold
RECURSIVE EnrichFrom(_, _, _, _)
EnrichFrom(craftElement, claudeElements, overlapThreshold, k) ==
    IF k > Len(claudeElements) THEN craftElement
    ELSE IF IoUAtLeast(calculateIoU(BoxOf(craftElement),
                                    BoxOf(claudeElements[k])),
                       overlapThreshold)
    THEN [craftElement EXCEPT !.content = claudeElements[k].content,
                              !.style = claudeElements[k].style]
    ELSE EnrichFrom(craftElement, claudeElements, overlapThreshold, k + 1)

enrichCraftElementsWithClaudeOCR(craftElements, claudeElements, overlapThreshold) ==
    [k \in 1..Len(craftElements) |->
        EnrichFrom(craftElements[k], claudeElements, overlapThreshold, 1)]

\* the first unmatched CRAFT element reaching the threshold, 0 if none
RECURSIVE FirstMatchFrom(_, _, _, _, _)
FirstMatchFrom(claudeElement, craftElements, craftMatched, overlapThreshold, i) ==
    IF i > Len(craftElements) THEN 0
    ELSE IF i \notin craftMatched
            /\ IoUAtLeast(calculateIoU(BoxOf(claudeElement),
                                       BoxOf(craftElements[i])),
                          overlapThreshold)
    THEN i
    ELSE FirstMatchFrom(claudeElement, craftElements, craftMatched,
                        overlapThreshold, i + 1)

RECURSIVE StatsMatched(_, _, _, _, _)
StatsMatched(claudeElements, craftElements, overlapThreshold, k, craftMatched) ==
    IF k > Len(claudeElements) THEN craftMatched
    ELSE LET i == FirstMatchFrom(claudeElements[k], craftElements,
                                 craftMatched, overlapThreshold, 1)
         IN  StatsMatched(claudeElements, craftElements, overlapThreshold,
                          k + 1,
                          IF i = 0 THEN craftMatched ELSE craftMatched \cup {i})

calculateDetectionStats(claudeElements, craftElements, mergedElements, overlapThreshold) ==
    LET overlapCount == Cardinality(StatsMatched(claudeElements, craftElements,
                                                 overlapThreshold, 1, {}))
    IN  [claudeCount |-> Len(claudeElements),
         craftCount |-> Len(craftElements),
         mergedCount |-> Len(mergedElements),
         overlapCount |-> overlapCount,
         claudeOnlyCount |-> Len(claudeElements) - overlapCount,
         craftOnlyCount |-> Len(craftElements) - overlapCount]

(***************************************************************************)
(* Inputs of the pure functions.                                           *)
(***************************************************************************)
\* thresholds: the four of the code (0.3, 0.5, 0.7, 0.8) and the extremes
Thresholds == {[num |-> 0, den |-> 1], [num |-> 3, den |-> 10],
               [num |-> 1, den |-> 2], [num |-> 4, den |-> 5],
               [num |-> 1, den |-> 1]}

\* content-aware candidates: overlapping, nested and disjoint rectangles
ClaudeCandidates ==
    {Element("Hello", 0, 0, 100, 100, Bold, 90, "claude"),
     Element("World", 20, 0, 100, 100, Plain, Undef, "claude"),
     Element("X", 500, 500, 50, 50, Plain, 80, "claude")}

\* geometry-only candidates; [Text 2] and [Text 4] overlap "Hello" equally
CraftCandidates ==
    {Element("[Text 1]", 0, 0, 100, 80, Style("Arial", 8, "000000", FALSE), 95, "craft"),
     Element("[Text 2]", 10, 0, 100, 100, Style("Arial", 8, "000000", FALSE), Undef, "craft"),
     Element("[Text 3]", 520, 500, 50, 50, Style("Arial", 8, "000000", FALSE), 40, "craft"),
     Element("[Text 4]", 0, 10, 100, 100, Style("Arial", 8, "000000", FALSE), 70, "craft")}

\* candidates of the dedup pass: pairs with IoU 1, 0.8, 2/3, 1/3 and 0
DedupCandidates ==
    {Element("a", 0, 0, 100, 100, Plain, 80, "claude"),
     Element("b", 0, 0, 100, 80, Plain, 90, "claude"),
     Element("c", 20, 0, 100, 100, Plain, 85, "craft"),
     Element("d", 40, 0, 100, 100, Plain, Undef, "craft"),
     Element("e", 500, 500, 50, 50, Plain, 80, "claude"),
     Element("f", 40, 0, 100, 100, Plain, 90, "craft")}

(***************************************************************************)
(* The pure functions are evaluated outside any slide detection.           *)
(***************************************************************************)
DEFAULT_SETTINGS ==
    [useHybridDetection |-> TRUE, useCraftPrimary |-> FALSE, useDBNet |-> FALSE]

NoFrame == [regions |-> <<>>, claudeElements |-> <<>>, boxes |-> <<>>,
            textElements |-> <<>>, i |-> 0, caller |-> ""]

NoConversion == [status |-> "none", slideImages |-> <<>>, i |-> 0,
                 slideElements |-> <<>>]

orchestration == <<frame, calls, faults, settings, conversion>>

NoDetection ==
    /\ frame = NoFrame
    /\ calls = <<>>
    /\ faults = 0
    /\ settings = DEFAULT_SETTINGS
    /\ conversion = NoConversion

(***************************************************************************)
(* Specification of mergeDetections on bounded inputs.                     *)
(***************************************************************************)
InitMerge ==
    /\ NoDetection
    /\ pc = "mergeDetections"
    /\ call \in [claudeElements : SeqsUpTo(ClaudeCandidates, MaxClaude),
                 craftElements : SeqsUpTo(CraftCandidates, MaxCraft),
                 overlapThreshold : Thresholds]
    /\ ret = None

CallMergeDetections ==
    /\ pc = "mergeDetections"
    /\ ret' = mergeDetections(call.claudeElements, call.craftElements,
                              call.overlapThreshold)
    /\ pc' = "returned"
    /\ UNCHANGED <<call, orchestration>>

SpecMerge == InitMerge /\ [][CallMergeDetections]_vars

(***************************************************************************)
(* Specification of enrichCraftElementsWithClaudeOCR on bounded inputs.    *)
(***************************************************************************)
InitEnrich ==
    /\ NoDetection
    /\ pc = "enrichCraftElementsWithClaudeOCR"
    /\ call \in [craftElements : SeqsUpTo(CraftCandidates, MaxCraft),
                 claudeElements : SeqsUpTo(ClaudeCandidates, MaxClaude),
                 overlapThreshold : Thresholds]
    /\ ret = None

CallEnrich ==
    /\ pc = "enrichCraftElementsWithClaudeOCR"
    /\ ret' = [enrichedElements |->
                  enrichCraftElementsWithClaudeOCR(call.craftElements,
                                                   call.claudeElements,
                                                   call.overlapThreshold)]
    /\ pc' = "returned"
    /\ UNCHANGED <<call, orchestration>>

SpecEnrich == InitEnrich /\ [][CallEnrich]_vars

(***************************************************************************)
(* Specification of filterOverlappingDetections on bounded inputs.         *)
(***************************************************************************)
InitFilter ==
    /\ NoDetection
    /\ pc = "filterOverlappingDetections"
    /\ call \in [elements : SeqsUpTo(DedupCandidates, MaxElements),
                 overlapThreshold : Thresholds]
    /\ ret = None

CallFilterOverlappingDetections ==
    /\ pc = "filterOverlappingDetections"
    /\ ret' = [filtered |-> filterOverlappingDetections(call.elements,
                                                        call.overlapThreshold)]
    /\ pc' = "returned"
    /\ UNCHANGED <<call, orchestration>>

SpecFilter == InitFilter /\ [][CallFilterOverlappingDetections]_vars

(***************************************************************************)
(* Specification of calculateIoU and calculateRegionIoU on every ordered   *)
(* pair of a few rectangles: overlapping, nested, touching, disjoint, the  *)
(* whole canvas, and rectangles of zero or negative extent.                *)
(***************************************************************************)
InitIoU ==
    LET Rect(x, y, width, height) ==
            [x |-> x, y |-> y, width |-> width, height |-> height]
        Rects == {Rect(0, 0, 100, 100), Rect(50, 50, 100, 100),
                  Rect(10, 10, 20, 20), Rect(100, 0, 100, 100),
                  Rect(500, 500, 50, 50), Rect(0, 0, 9600, 5400),
                  Rect(0, 0, 0, 100), Rect(20, 20, 100, 0),
                  Rect(100, 100, -50, -50)}
    IN  /\ NoDetection
        /\ pc = "calculateIoU"
        /\ call \in [box1 : Rects, box2 : Rects]
        /\ ret = None

\* both functions are applied to the pair, calculateIoU also to the
\* swapped pair
CallCalculateIoU ==
    /\ pc = "calculateIoU"
    /\ ret' = [iou |-> calculateIoU(call.box1, call.box2),
               swapped |-> calculateIoU(call.box2, call.box1),
               regionIoU |-> calculateRegionIoU(call.box1, call.box2)]
    /\ pc' = "returned"
    /\ UNCHANGED <<call, orchestration>>

SpecIoU == InitIoU /\ [][CallCalculateIoU]_vars

(***************************************************************************)
(* Specification of clampToSlideBounds and clampCoordinates: a rectangle   *)
(* is clamped, and the result is clamped again.  The rectangles lie left   *)
(* of, on, inside, near the far edge of, on the far edge of and beyond the *)
(* canvas, with sizes that are negative, zero, below the minimum, moderate *)
(* and larger than the canvas.                                             *)
(***************************************************************************)
InitClamp ==
    /\ NoDetection
    /\ pc \in {"clampToSlideBounds", "clampCoordinates"}
    /\ call \in [x : {-96, 0, 4800, 9552, 9600, 9696},
                 y : {-96, 0, 5352, 5400, 5496},
                 width : {-96, 0, 48, 96, 4800, 9696},
                 height : {0, 96, 2400, 5496}]
    /\ ret = None

\* the function is applied to the rectangle, and then once more to its
\* own result
CallClamp ==
    LET rect == IF ret = None THEN call ELSE ret
    IN  /\ pc \in {"clampToSlideBounds", "clampCoordinates",
                   "clampToSlideBounds.returned", "clampCoordinates.returned"}
        /\ call' = rect
        /\ ret' = IF pc \in {"clampToSlideBounds",
                             "clampToSlideBounds.returned"}
                  THEN clampToSlideBounds(rect.x, rect.y, rect.width,
                                          rect.height)
                  ELSE clampCoordinates(rect.x, rect.y, rect.width,
                                        rect.height, SLIDE_WIDTH, SLIDE_HEIGHT)
        /\ pc' = pc \o (IF ret = None THEN ".returned" ELSE ".again")
        /\ UNCHANGED orchestration

SpecClamp == InitClamp /\ [][CallClamp]_vars

(***************************************************************************)
(* Specification of the two dedup passes, filterOverlappingDetections and  *)
(* deduplicateRegions, with the indices they removed.  The regions: two of *)
(* equal area and IoU 9/11, one nested in the first with IoU 0.9, one      *)
(* apart.                                                                  *)
(***************************************************************************)
InitDedup ==
    LET Regions == {Region("title", 0, 0, 100, 100, 80, TRUE),
                    Region("text_box", 10, 0, 100, 100, 95, TRUE),
                    Region("shape", 0, 0, 100, 90, 90, TRUE),
                    Region("image", 500, 500, 50, 50, 85, FALSE)}
    IN  /\ NoDetection
        /\ pc = "dedup"
        /\ ret = None
        /\ \/ call \in [elements : SeqsUpTo(DedupCandidates, MaxElements),
                         overlapThreshold : Thresholds]
           \/ call \in [regions : SeqsUpTo(Regions, MaxElements)]

CallDedup ==
    /\ pc = "dedup"
    /\ ret' = IF "regions" \in DOMAIN call
              THEN [filtered |-> deduplicateRegions(call.regions),
                    toRemove |-> DedupOuter(call.regions, 1, {})]
              ELSE [filtered |-> filterOverlappingDetections(
                                    call.elements, call.overlapThreshold),
                    toRemove |-> FilterOuter(call.elements,
                                             call.overlapThreshold, 1, {})]
    /\ pc' = "returned"
    /\ UNCHANGED <<call, orchestration>>

SpecDedup == InitDedup /\ [][CallDedup]_vars

(***************************************************************************)
(* Specification of mergeCharacterBoxesToWords and mergeBoxesToLines on    *)
(* bounded inputs.                                                         *)
(***************************************************************************)
InitGroup ==
    LET \* characters next to each other, one of them lower by 5 px, one
        \* tilted by 3 degrees, one far to the right and one on the next line
        Boxes == {Box(100, 100, 20, 40, 900, "", 0),
                  Box(122, 100, 20, 40, 800, "", 0),
                  Box(150, 105, 20, 40, 700, "", Undef),
                  Box(110, 100, 20, 40, 950, "", 30),
                  Box(400, 100, 30, 40, 600, "", 0),
                  Box(100, 200, 60, 40, 900, "", 0)}
    IN  /\ NoDetection
        /\ pc \in {"mergeCharacterBoxesToWords", "mergeBoxesToLines"}
        /\ call \in [boxes : SeqsUpTo(Boxes, MaxBoxes)]
        /\ ret = None

CallGroup ==
    /\ pc \in {"mergeCharacterBoxesToWords", "mergeBoxesToLines"}
    /\ ret' = [grouped |-> IF pc = "mergeBoxesToLines"
                           THEN mergeBoxesToLines(call.boxes)
                           ELSE mergeCharacterBoxesToWords(call.boxes)]
    /\ pc' = pc \o ".returned"
    /\ UNCHANGED <<call, orchestration>>

SpecGroup == InitGroup /\ [][CallGroup]_vars

(***************************************************************************)
(* Specification of normalizeCoordinates on bounded inputs.                *)
(***************************************************************************)
\* regions in pixels: a half-slide container, the smallest region the
\* layout parser lets through (10 x 10 px) and a box inside the container
RegionCandidates ==
    {Region("body", 0, 0, 960, 540, 95, TRUE),
     Region("note", 1000, 100, 10, 10, 80, TRUE),
     Region("shape", 100, 100, 400, 200, 85, TRUE)}

\* elements in canvas units: inside a region, wider than it, 10 px wide at
\* its right edge, on the smallest region, outside every region, and with
\* the centre on the right edge of the half-slide container
PlacementCandidates ==
    {Element("inside", 1000, 1000, 500, 200, Plain, 90, "claude"),
     Element("wide", 400, 400, 3000, 1200, Plain, 90, "claude"),
     Element("edge", 4750, 200, 50, 100, Plain, 90, "claude"),
     Element("tiny", 5000, 500, 50, 50, Plain, 90, "claude"),
     Element("outside", 8000, 4000, 500, 200, Plain, 90, "claude"),
     Element("border", 4700, 1000, 200, 200, Plain, 90, "claude")}

InitNormalize ==
    /\ NoDetection
    /\ pc = "normalizeCoordinates"
    /\ call \in [textElements : SeqsUpTo(PlacementCandidates, MaxPlaced),
                 regions : SeqsUpTo(RegionCandidates, MaxRegions)]
    /\ ret = None

CallNormalizeCoordinates ==
    /\ pc = "normalizeCoordinates"
    /\ ret' = [normalized |-> normalizeCoordinates(call.textElements, call.regions)]
    /\ pc' = "returned"
    /\ UNCHANGED <<call, orchestration>>

SpecNormalize == InitNormalize /\ [][CallNormalizeCoordinates]_vars

(***************************************************************************)
(* Specification of alignElementsWithinRegions: on the elements of the     *)
(* call, or on the result of normalizeCoordinates with the same regions,   *)
(* as performHybridDetection and analyzeSlideImageWithLayoutDetection      *)
(* call it.                                                                *)
(***************************************************************************)
CallAlignElementsWithinRegions ==
    /\ pc \in {"normalizeCoordinates", "returned"}
    /\ LET textElements == IF pc = "returned" THEN ret.normalized
                            ELSE call.textElements
       IN  ret' = [textElements |-> textElements,
                   afterNormalize |-> (pc = "returned"),
                   aligned |-> alignElementsWithinRegions(textElements,
                                                          call.regions)]
    /\ pc' = "aligned"
    /\ UNCHANGED <<call, orchestration>>

SpecAlign ==
    InitNormalize
    /\ [][CallNormalizeCoordinates \/ CallAlignElementsWithinRegions]_vars

(***************************************************************************)
(* Slide images.  What a service answers for an image, when it answers     *)
(* well, is a property of the image: layout are the raw regions of the     *)
(* layout service, ocr[k] the raw texts of the region OCR service for      *)
(* region k, texts the raw texts of the direct analysis, boxes and         *)
(* warning the body of the detector's answer, contents[k] the raw answer   *)
(* of the recognition of grouped box k.                                    *)
(***************************************************************************)
RawText(content, x, y, w, h, family, size, color, bold, conf) ==
    [content |-> content, x |-> x, y |-> y, width |-> w, height |-> h,
     fontFamily |-> family, fontSize |-> size, fontColor |-> color,
     isBold |-> bold, confidence |-> conf]

RawContent(content, family, size, color, bold, conf) ==
    [content |-> content, fontFamily |-> family, fontSize |-> size,
     fontColor |-> color, isBold |-> bold, confidence |-> conf]

Image(name, w, h, layout, ocr, texts, boxes, warning, contents) ==
    [name |-> name, width |-> w, height |-> h, layout |-> layout,
     ocr |-> ocr, texts |-> texts, boxes |-> boxes, warning |-> warning,
     contents |-> contents]

SlideImages ==
    LET
        \* a title and a body, a duplicate of the title region and a picture; the
        \* detector sees the two halves of the title and a caption outside both
        TitleAndBody ==
            Image("titleAndBody", 1920, 1080,
                  <<Region("title", 100, 50, 800, 100, 95, TRUE),
                    Region("", 100, 50, 780, 100, 90, TRUE),
                    Region("body", 100, 300, 800, 400, 0, TRUE),
                    Region("diagram", 1000, 100, 400, 400, 85, FALSE)>>,
                  <<<<RawText("Title", 120, 60, 400, 60, "Calibri", 90, "1F1F1F", TRUE, 96)>>,
                    <<RawText("Body", 120, 320, 600, 100, "", 0, "", FALSE, 0)>>,
                    <<>>>>,
                  <<RawText("Title", 120, 60, 400, 60, "Calibri", 28, "1F1F1F", TRUE, 96)>>,
                  <<Box(330, 60, 190, 60, 905, "", Undef),
                    Box(120, 60, 200, 60, 987, "", Undef),
                    Box(1000, 700, 300, 50, 800, "", Undef)>>,
                  FALSE,
                  <<RawContent("Title", "Calibri", 28, "1F1F1F", TRUE, 97),
                    RawContent("Caption", "", 0, "", FALSE, 0),
                    RawContent("Third", "Arial", 12, "000000", FALSE, 50)>>)

        \* the same slide when the detector's answer carries a warning
        Warned ==
            [TitleAndBody EXCEPT !.name = "warned", !.warning = TRUE]

        \* an image of half the reference size
        Small ==
            Image("small", 960, 540,
                  <<Region("text_box", 0, 0, 480, 270, 90, TRUE)>>,
                  <<<<RawText("Half", 100, 100, 60, 40, "Arial", 12, "000000", FALSE, 90)>>>>,
                  <<RawText("Half", 100, 100, 60, 40, "Arial", 12, "000000", FALSE, 90)>>,
                  <<Box(100, 100, 60, 40, 900, "", 0),
                    Box(164, 100, 60, 40, 700, "", 40)>>,
                  FALSE,
                  <<RawContent("Half", "Arial", 12, "000000", FALSE, 90),
                    RawContent("Tilted", "Arial", 12, "000000", FALSE, 90)>>)

        \* text at the right and bottom end of the slide; the services report
        \* rectangles that reach beyond the image
        OffSlide ==
            Image("offSlide", 1920, 1080,
                  <<Region("footer", 1800, 1000, 500, 500, 90, TRUE)>>,
                  <<<<RawText("Page 7", 1916, 1076, 0, 0, "Arial", 10, "000000", FALSE, 85)>>>>,
                  <<RawText("Page 7", 1920, 1080, 0, 0, "Arial", 10, "000000", FALSE, 85)>>,
                  <<Box(1900, 1000, 100, 100, 950, "Page", Undef)>>,
                  FALSE,
                  <<RawContent("Page 7", "Arial", 10, "000000", FALSE, 85)>>)

        \* a slide on which the layout service finds no region and the detector no
        \* box
        Blank ==
            Image("blank", 1920, 1080, <<>>, <<>>,
                  <<RawText("Note", 100, 100, 200, 50, "Arial", 12, "000000", FALSE, 70)>>,
                  <<>>, FALSE, <<>>)

        \* two boxes far apart; the recognition finds no text in the second one
        EmptyContent ==
            Image("emptyContent", 1920, 1080,
                  <<Region("body", 0, 0, 1920, 1080, 90, TRUE)>>,
                  <<<<RawText("Word", 100, 100, 200, 50, "Arial", 12, "000000", FALSE, 70)>>>>,
                  <<>>,
                  <<Box(100, 100, 200, 50, 900, "", Undef),
                    Box(100, 600, 200, 50, 900, "", Undef)>>,
                  FALSE,
                  <<RawContent("Word", "Arial", 12, "000000", FALSE, 90),
                    RawContent(" ", "Arial", 12, "000000", FALSE, 20)>>)

        \* one line of text that the detector reports twice, at two angles
        Doubled ==
            Image("doubled", 1920, 1080,
                  <<Region("body", 100, 100, 800, 400, 90, TRUE)>>,
                  <<<<RawText("Twice", 200, 200, 300, 60, "Arial", 12, "000000", FALSE, 90)>>>>,
                  <<RawText("Twice", 200, 200, 300, 60, "Arial", 12, "000000", FALSE, 90)>>,
                  <<Box(200, 200, 300, 60, 900, "", 0),
                    Box(200, 200, 300, 60, 800, "", 20)>>,
                  FALSE,
                  <<RawContent("Twice", "Arial", 12, "000000", FALSE, 90),
                    RawContent("Twice", "Arial", 12, "000000", FALSE, 80)>>)
    IN  {TitleAndBody, Warned, Small, OffSlide, Blank, EmptyContent, Doubled}

(***************************************************************************)
(* hybrid-detector.ts: performHybridDetection and the functions it awaits. *)
(* pc is the call in progress: at "f" the adapter f reads and encodes the  *)
(* image blob, at "f.fetch" it awaits the answer of its service.           *)
(***************************************************************************)
EnrichThreshold == [num |-> 3, den |-> 10]
MergeThreshold == [num |-> 1, den |-> 2]
DedupThreshold == [num |-> 4, den |-> 5]

Stats(claudeCount, craftCount, mergedCount, overlapCount, claudeOnlyCount, craftOnlyCount) ==
    [claudeCount |-> claudeCount, craftCount |-> craftCount,
     mergedCount |-> mergedCount, overlapCount |-> overlapCount,
     claudeOnlyCount |-> claudeOnlyCount, craftOnlyCount |-> craftOnlyCount]

HybridDetectionResult(textElements, regions, detectionStats) ==
    [analysis |-> [textElements |-> textElements], regions |-> regions,
     detectionStats |-> detectionStats]

\* the detectionStats performHybridDetection starts with (lines 96-103)
InitialStats(claudeElements) ==
    Stats(Len(claudeElements), 0, Len(claudeElements), 0, Len(claudeElements), 0)

\* the detectionStats of a primary-mode fallback (lines 239-246, 323-330)
FallbackStats(textElements) ==
    Stats(Len(textElements), 0, Len(textElements), 0, Len(textElements), 0)

\* the two dispatch tests of performHybridDetection
IsCraftPrimary(args) == args.useCraftPrimary /\ args.useHybrid /\ ~args.useDBNet
\* a dispatch that enters DBNet-primary mode whenever DBNet is the detector
DBNetAlwaysPrimary(args) == args.useDBNet /\ args.useHybrid

IsDBNetPrimary(args) == args.useDBNet /\ args.useHybrid /\ args.useCraftPrimary
IsPrimary(args) == IsCraftPrimary(args) \/ IsDBNetPrimary(args)

\* mutant: a warning in the detector's answer is ignored
DetectionSuccessIgnoresError(result) == Len(result.boxes) > 0

\* boxes.length > 0 && !error (lines 116, 129)
DetectionSuccess(result) == Len(result.boxes) > 0 /\ ~result.error

\* mutant: only an answer without boxes and without error counts as failed
PrimaryFailedOnlyIfEmpty(result) == Len(result.boxes) = 0 /\ ~result.error

\* a primary detection that also gives up on a single box
PrimaryFailedBelowTwo(result) == result.error \/ Len(result.boxes) < 2

\* error || boxes.length === 0 of the primary detectors
PrimaryFailed(result) == result.error \/ Len(result.boxes) = 0

\* content && content.trim().length > 0
HasText(content) == content \notin {"", " "}

Returns(result) == pc' = "done" /\ ret' = result

\* the end of the single-source pipeline, in performHybridDetection (lines
\* 95-105 and 180-188), in a primary-mode fallback (lines 236-248) and in
\* processConversion (lines 112-118)
PipelineDone(regions, elements) ==
    /\ frame' = [frame EXCEPT !.regions = regions, !.claudeElements = elements]
    /\ IF frame.caller = "performHybridDetection"
       THEN IF call.useHybrid
            THEN pc' = "detectText" /\ ret' = ret
            ELSE Returns(HybridDetectionResult(elements, regions,
                                               InitialStats(elements)))
       ELSE IF frame.caller = "fallback"
       THEN Returns(HybridDetectionResult(elements, regions,
                                          FallbackStats(elements)))
       ELSE Returns([analysis |-> [textElements |-> elements],
                     regions |-> regions])

\* a loop that reads the first text region only
NextTextRegionOnce(regions, k) ==
    IF k > 1 THEN 0
    ELSE IF \E n \in 1..Len(regions) : regions[n].contains_text
    THEN CHOOSE n \in 1..Len(regions) :
            /\ regions[n].contains_text
            /\ \A m \in 1..(n - 1) : ~regions[m].contains_text
    ELSE 0

\* the next region with contains_text from index k on, 0 if none
RECURSIVE NextTextRegion(_, _)
NextTextRegion(regions, k) ==
    IF k > Len(regions) THEN 0
    ELSE IF regions[k].contains_text THEN k
    ELSE NextTextRegion(regions, k + 1)

\* performRegionBasedOCR from region k on; after the last region the
\* elements are normalised and aligned (lines 81-82, 421-423)
RegionLoop(regions, k, elements) ==
    LET n == NextTextRegion(regions, k)
    IN  IF n # 0
        THEN /\ pc' = "performOCROnRegion"
             /\ frame' = [frame EXCEPT !.regions = regions, !.i = n,
                                       !.claudeElements = elements]
             /\ ret' = ret
        ELSE PipelineDone(regions,
                alignElementsWithinRegions(
                    normalizeCoordinates(elements, regions), regions))

\* what follows detectLayoutRegions
LayoutDone(regions) ==
    IF Len(regions) > 0 THEN RegionLoop(regions, 1, <<>>)
    ELSE IF frame.caller = "performHybridDetection"
    THEN PipelineDone(regions, <<>>)
    ELSE /\ pc' = "analyzeSlideImage"
         /\ frame' = [frame EXCEPT !.regions = regions]
         /\ ret' = ret

\* performCraftPrimaryDetection / performDBNetPrimaryDetection and their
\* callers, after the recognition of the last grouped box
PrimaryResult(textElements, boxCount) ==
    LET ocrSuccessCount ==
            Cardinality({k \in 1..Len(textElements) :
                            HasText(textElements[k].content)})
    IN  HybridDetectionResult(textElements, <<>>,
            Stats(0, boxCount, Len(textElements), ocrSuccessCount, 0,
                  boxCount - ocrSuccessCount))

\* performOCROnCraftRegions / performOCROnDBNetRegions from box k on
BoxLoop(boxes, k, elements) ==
    /\ frame' = [frame EXCEPT !.boxes = boxes, !.i = k, !.textElements = elements]
    /\ IF k <= Len(boxes)
       THEN pc' = "performOCROnSingleBox" /\ ret' = ret
       ELSE Returns(PrimaryResult(elements, Len(boxes)))

\* the merge phase of performHybridDetection (lines 140-152)
MergePhase(claudeElements, detectorElements, regions) ==
    LET enriched == enrichCraftElementsWithClaudeOCR(detectorElements,
                                                     claudeElements,
                                                     EnrichThreshold)
        mergeResult == mergeDetections(claudeElements, enriched, MergeThreshold)
        finalElements == filterOverlappingDetections(mergeResult.mergedElements,
                                                     DedupThreshold)
    IN  HybridDetectionResult(finalElements, regions,
            calculateDetectionStats(claudeElements, enriched, finalElements,
                                    MergeThreshold))

GroupBoxes(boxes) ==
    IF call.useDBNet THEN mergeBoxesToLines(boxes)
    ELSE mergeCharacterBoxesToWords(boxes)

\* what follows detectTextWithCRAFT / detectTextWithDBNet
DetectorDone(result) ==
    IF IsPrimary(call)
    THEN IF PrimaryFailed(result)
         THEN /\ pc' = "detectLayoutRegions"
              /\ frame' = [frame EXCEPT !.caller = "fallback"]
              /\ ret' = ret
         ELSE BoxLoop(GroupBoxes(result.boxes), 1, <<>>)
    ELSE /\ frame' = frame
         /\ IF DetectionSuccess(result)
            THEN Returns(MergePhase(
                    frame.claudeElements,
                    IF call.useDBNet
                    THEN convertDBNetBoxesToTextElements(
                             GroupBoxes(result.boxes),
                             call.imageWidth, call.imageHeight)
                    ELSE convertCraftBoxesToTextElements(
                             GroupBoxes(result.boxes),
                             call.imageWidth, call.imageHeight),
                    frame.regions))
            ELSE Returns(HybridDetectionResult(frame.claudeElements,
                                               frame.regions,
                                               InitialStats(frame.claudeElements)))

(***************************************************************************)
(* The steps of one slide detection.  A service answers well ("ok"), with  *)
(* a network error or a non-success status ("error"), or with a payload    *)
(* that does not parse ("malformed"); reading the blob succeeds or fails.  *)
(* A failure uses up one of the faults the run may still see.              *)
(***************************************************************************)
Outcomes == {"ok", "error", "malformed"}

Spend(outcome) ==
    IF outcome = "ok" THEN faults' = faults
    ELSE faults > 0 /\ faults' = faults - 1

Log(adapter, outcome) == calls' = Append(calls, <<adapter, outcome>>)

slideInput == <<call, settings, conversion>>

\* performHybridDetection, lines 40-64
EnterPerformHybridDetection ==
    /\ pc = "performHybridDetection"
    /\ pc' = IF IsPrimary(call) THEN "detectText" ELSE "detectLayoutRegions"
    /\ frame' = [NoFrame EXCEPT !.caller = "performHybridDetection"]
    /\ UNCHANGED <<ret, calls, faults, slideInput>>

\* detectLayoutRegions, lines 30-32
LayoutReadsBlob ==
    /\ pc = "detectLayoutRegions"
    /\ pc' = "detectLayoutRegions.fetch"
    /\ UNCHANGED <<ret, frame, calls, faults, slideInput>>

\* the same lines when the blob cannot be read: they are outside the try,
\* and no caller up to performHybridDetection catches
LayoutBlobFails ==
    /\ pc = "detectLayoutRegions"
    /\ Spend("blob")
    /\ Log("detectLayoutRegions", "blob")
    /\ pc' = "threw"
    /\ UNCHANGED <<ret, frame, slideInput>>

\* detectLayoutRegions, lines 36-77, and what its caller does next
LayoutResponds ==
    /\ pc = "detectLayoutRegions.fetch"
    /\ \E outcome \in Outcomes :
          /\ Spend(outcome)
          /\ Log("detectLayoutRegions", outcome)
          /\ LayoutDone(IF outcome = "ok"
                        THEN parseLayoutResponse(call.imageBlob.layout,
                                                 call.imageWidth,
                                                 call.imageHeight)
                        ELSE <<>>)
    /\ UNCHANGED slideInput

\* performOCROnRegion, lines 62-64
RegionOCRReadsBlob ==
    /\ pc = "performOCROnRegion"
    /\ pc' = "performOCROnRegion.fetch"
    /\ UNCHANGED <<ret, frame, calls, faults, slideInput>>

\* the same lines when the blob cannot be read: the loop of
\* performRegionBasedOCR catches and goes on (lines 44-46)
RegionOCRBlobFails ==
    /\ pc = "performOCROnRegion"
    /\ Spend("blob")
    /\ Log("performOCROnRegion", "blob")
    /\ RegionLoop(frame.regions, frame.i + 1, frame.claudeElements)
    /\ UNCHANGED slideInput

\* the texts the region OCR service holds for region k of the image
OcrOf(image, k) == IF k <= Len(image.ocr) THEN image.ocr[k] ELSE <<>>

\* performOCROnRegion, lines 68-95, and the loop of performRegionBasedOCR
RegionOCRResponds ==
    /\ pc = "performOCROnRegion.fetch"
    /\ \E outcome \in Outcomes :
          /\ Spend(outcome)
          /\ Log("performOCROnRegion", outcome)
          /\ RegionLoop(frame.regions, frame.i + 1,
                frame.claudeElements \o
                (IF outcome = "ok"
                 THEN parseRegionOCRResponse(OcrOf(call.imageBlob, frame.i),
                                             frame.regions[frame.i],
                                             call.imageWidth, call.imageHeight)
                 ELSE <<>>))
    /\ UNCHANGED slideInput

DetectorName == IF call.useDBNet THEN "detectTextWithDBNet" ELSE "detectTextWithCRAFT"

FailedDetection == [boxes |-> <<>>, error |-> TRUE]

\* detectTextWithCRAFT lines 85-87, detectTextWithDBNet lines 53-55
DetectorReadsBlob ==
    /\ pc = "detectText"
    /\ pc' = "detectText.fetch"
    /\ UNCHANGED <<ret, frame, calls, faults, slideInput>>

\* the same lines when the blob cannot be read: they are inside the try
DetectorBlobFails ==
    /\ pc = "detectText"
    /\ Spend("blob")
    /\ Log(DetectorName, "blob")
    /\ DetectorDone(FailedDetection)
    /\ UNCHANGED slideInput

\* detectTextWithCRAFT lines 95-151, detectTextWithDBNet lines 62-123
DetectorResponds ==
    /\ pc = "detectText.fetch"
    /\ \E outcome \in Outcomes :
          /\ Spend(outcome)
          /\ Log(DetectorName, outcome)
          /\ DetectorDone(IF outcome = "ok"
                          THEN [boxes |-> call.imageBlob.boxes,
                                error |-> call.imageBlob.warning]
                          ELSE FailedDetection)
    /\ UNCHANGED slideInput

\* the 35 s timer of the detectors aborts the request
DetectorTimesOut ==
    /\ pc = "detectText.fetch"
    /\ Log(DetectorName, "timeout")
    /\ DetectorDone(FailedDetection)
    /\ UNCHANGED <<faults, slideInput>>

\* the recognition result of one box: parseCraftRegionOCRResponse /
\* parseDBNetRegionOCRResponse for a payload that parses,
\* createDefaultOCRResult for one that does not, and the placeholder of the
\* catch in performOCROnSingleCraftBox / performOCROnSingleDBNetBox
DefaultOCRResult == RawContent("", "Arial", 12, "000000", FALSE, 0)

BoxOCRResult(image, regionIndex, outcome) ==
    IF outcome = "error"
    THEN RawContent(RegionLabel(regionIndex), "Arial", 12, "000000", FALSE, 0)
    ELSE IF outcome = "malformed" \/ regionIndex > Len(image.contents)
    THEN DefaultOCRResult
    ELSE LET parsed == image.contents[regionIndex]
         IN  RawContent(parsed.content,
                        OrDefaultText(parsed.fontFamily, "Arial"),
                        Max(8, Min(72, OrDefault(parsed.fontSize, 12))),
                        OrDefaultText(parsed.fontColor, "000000"),
                        parsed.isBold,
                        Max(0, Min(100, OrDefault(parsed.confidence, 80))))

\* the element built in the loop of performOCROnCraftRegions (lines 533-551)
\* and of performOCROnDBNetRegions (lines 57-75)
BoxElement(box, ocrResult) ==
    LET coordinates == convertBoxToCoordinates(box, call.imageWidth,
                                               call.imageHeight)
    IN  Element(ocrResult.content, coordinates.x, coordinates.y,
                coordinates.width, coordinates.height,
                Style(ocrResult.fontFamily, ocrResult.fontSize,
                      ocrResult.fontColor, ocrResult.isBold),
                ocrResult.confidence,
                IF call.useDBNet THEN "dbnet_primary" ELSE "craft_primary")

\* textElements.push(element) only for an element with text
PushIfText(textElements, element) ==
    IF HasText(element.content) THEN Append(textElements, element)
    ELSE textElements

\* performOCROnSingleCraftBox lines 577-579, performOCROnSingleDBNetBox
BoxOCRReadsBlob ==
    /\ pc = "performOCROnSingleBox"
    /\ pc' = "performOCROnSingleBox.fetch"
    /\ UNCHANGED <<ret, frame, calls, faults, slideInput>>

\* the same lines when the blob cannot be read: the loop catches, no
\* element is pushed for the box
BoxOCRBlobFails ==
    /\ pc = "performOCROnSingleBox"
    /\ Spend("blob")
    /\ Log("performOCROnSingleBox", "blob")
    /\ BoxLoop(frame.boxes, frame.i + 1, frame.textElements)
    /\ UNCHANGED slideInput

\* performOCROnSingleCraftBox lines 583-619 and the rest of the loop body
BoxOCRResponds ==
    /\ pc = "performOCROnSingleBox.fetch"
    /\ \E outcome \in Outcomes :
          /\ Spend(outcome)
          /\ Log("performOCROnSingleBox", outcome)
          /\ BoxLoop(frame.boxes, frame.i + 1,
                     PushIfText(frame.textElements,
                                BoxElement(frame.boxes[frame.i],
                                           BoxOCRResult(call.imageBlob,
                                                        frame.i, outcome))))
    /\ UNCHANGED slideInput

\* analyzeSlideImage, lines 384-388
DirectReadsBlob ==
    /\ pc = "analyzeSlideImage"
    /\ pc' = "analyzeText.fetch"
    /\ UNCHANGED <<ret, frame, calls, faults, slideInput>>

\* the same lines when the blob cannot be read: nothing catches
DirectBlobFails ==
    /\ pc = "analyzeSlideImage"
    /\ Spend("blob")
    /\ Log("analyzeSlideImage", "blob")
    /\ pc' = "threw"
    /\ UNCHANGED <<ret, frame, slideInput>>

\* analyzeText, lines 454-484, and the return of
\* analyzeSlideImageWithLayoutDetection
DirectResponds ==
    /\ pc = "analyzeText.fetch"
    /\ \E outcome \in Outcomes :
          /\ Spend(outcome)
          /\ Log("analyzeSlideImage", outcome)
          /\ PipelineDone(frame.regions,
                          IF outcome = "ok"
                          THEN parseTextResponse(call.imageBlob.texts,
                                                 call.imageWidth,
                                                 call.imageHeight)
                          ELSE <<>>)
    /\ UNCHANGED slideInput

\* the steps the code takes by itself
DetectionStep ==
    \/ EnterPerformHybridDetection
    \/ LayoutReadsBlob
    \/ RegionOCRReadsBlob
    \/ DetectorReadsBlob
    \/ BoxOCRReadsBlob
    \/ DirectReadsBlob

\* the failures of reading the blob
BlobFailure ==
    \/ LayoutBlobFails
    \/ RegionOCRBlobFails
    \/ DetectorBlobFails
    \/ BoxOCRBlobFails
    \/ DirectBlobFails

\* the answers of the services
ServiceAnswer ==
    \/ LayoutResponds
    \/ RegionOCRResponds
    \/ DetectorResponds
    \/ BoxOCRResponds
    \/ DirectResponds

NextDetection ==
    \/ DetectionStep
    \/ BlobFailure
    \/ ServiceAnswer
    \/ DetectorTimesOut

(***************************************************************************)
(* Specification of one call of performHybridDetection, for every mode.    *)
(***************************************************************************)
HybridArgs(image, useHybrid, useCraftPrimary, useDBNet) ==
    [imageBlob |-> image, imageWidth |-> image.width,
     imageHeight |-> image.height, useHybrid |-> useHybrid,
     useCraftPrimary |-> useCraftPrimary, useDBNet |-> useDBNet]

InitHybrid ==
    /\ pc = "performHybridDetection"
    /\ call \in {HybridArgs(image, h, c, d) :
                    image \in SlideImages, h \in BOOLEAN, c \in BOOLEAN,
                    d \in BOOLEAN}
    /\ ret = None
    /\ frame = NoFrame
    /\ calls = <<>>
    /\ faults = MaxFaults
    /\ settings = DEFAULT_SETTINGS
    /\ conversion = NoConversion

SpecHybrid == InitHybrid /\ [][NextDetection]_vars

(***************************************************************************)
(* The same call under the scheduling the code has: a step the code takes  *)
(* by itself is eventually taken, and the 35 s timer that                  *)
(* detectTextWithCRAFT and detectTextWithDBNet arm with setTimeout         *)
(* eventually fires while their request is pending.  Nothing makes a       *)
(* service answer, so the answers carry no fairness.                       *)
(***************************************************************************)
SpecHybridFair ==
    SpecHybrid /\ WF_vars(DetectionStep) /\ WF_vars(DetectorTimesOut)

(***************************************************************************)
(* processConversion: the slides of a presentation are analysed one after  *)
(* the other, each with the settings read when its turn comes.             *)
(***************************************************************************)
MaxSlides == 2

\* the arguments of analyzeSlideImageWithLayoutDetection
DirectArgs(image) ==
    [imageBlob |-> image, imageWidth |-> image.width,
     imageHeight |-> image.height]

InLoop == conversion.status \in {"parsing", "analyzing"}

\* processConversion, lines 62-118: the image of the next slide is loaded,
\* the settings are read and the detection of the slide is called
StartSlide ==
    /\ InLoop
    /\ pc = "processConversion"
    /\ conversion.i < Len(conversion.slideImages)
    /\ LET slideImage == conversion.slideImages[conversion.i + 1]
       IN  IF settings.useHybridDetection
           THEN /\ call' = HybridArgs(slideImage.imageBlob, TRUE,
                                      settings.useCraftPrimary,
                                      settings.useDBNet)
                /\ pc' = "performHybridDetection"
                /\ frame' = NoFrame
           ELSE /\ call' = DirectArgs(slideImage.imageBlob)
                /\ pc' = "detectLayoutRegions"
                /\ frame' = [NoFrame EXCEPT !.caller = "processConversion"]
    /\ conversion' = [conversion EXCEPT !.i = @ + 1]
    /\ calls' = <<>>
    /\ ret' = None
    /\ UNCHANGED <<faults, settings>>

\* createImageFromBlob, lines 292-309, when the image does not load
ImageLoadFails ==
    /\ InLoop
    /\ pc = "processConversion"
    /\ conversion.i < Len(conversion.slideImages)
    /\ Spend("blob")
    /\ calls' = <<<<"createImageFromBlob", "blob">>>>
    /\ conversion' = [conversion EXCEPT !.i = @ + 1]
    /\ pc' = "threw"
    /\ UNCHANGED <<call, ret, frame, settings>>

\* lines 120-171: the result of the slide is stored and pushed
SaveSlide ==
    /\ InLoop
    /\ pc = "done"
    /\ conversion' = [conversion EXCEPT
            !.status = "analyzing",
            !.slideElements =
                Append(@, [slideNumber |-> conversion.i,
                           analysis |-> ret.analysis,
                           imageWidth |-> call.imageWidth,
                           imageHeight |-> call.imageHeight,
                           imageBlob |-> call.imageBlob])]
    /\ pc' = "processConversion"
    /\ UNCHANGED <<call, ret, frame, calls, faults, settings>>

\* lines 174-177: after the last slide the generation starts
StartGenerating ==
    /\ InLoop
    /\ pc = "processConversion"
    /\ conversion.i = Len(conversion.slideImages)
    /\ conversion' = [conversion EXCEPT !.status = "generating"]
    /\ pc' = "generateEditablePPTX"
    /\ UNCHANGED <<call, ret, frame, calls, faults, settings>>

\* lines 195-203: whatever was thrown marks the conversion as failed and
\* is thrown again
CatchFailure ==
    /\ InLoop
    /\ pc = "threw"
    /\ conversion' = [conversion EXCEPT !.status = "failed"]
    /\ pc' = "rethrown"
    /\ UNCHANGED <<call, ret, frame, calls, faults, settings>>

ConversionStep ==
    \/ StartSlide
    \/ ImageLoadFails
    \/ SaveSlide
    \/ StartGenerating
    \/ CatchFailure

NextConversion ==
    \/ ConversionStep
    \/ NextDetection

\* the slides parsePPTX hands over (lines 51-52)
ParsedSlide(image) == [imageBlob |-> image]

ConversionImages ==
    {image \in SlideImages : image.name \in {"titleAndBody", "warned", "blank"}}

InitConversion ==
    /\ pc = "processConversion"
    /\ call = None
    /\ ret = None
    /\ frame = NoFrame
    /\ calls = <<>>
    /\ faults = MaxFaults
    /\ settings \in [useHybridDetection : BOOLEAN, useCraftPrimary : BOOLEAN,
                      useDBNet : BOOLEAN]
    /\ \E slideImages \in SeqsUpTo({ParsedSlide(image) : image \in ConversionImages},
                                    MaxSlides) :
          conversion = [status |-> "parsing", slideImages |-> slideImages,
                        i |-> 0, slideElements |-> <<>>]

SpecConversion == InitConversion /\ [][NextConversion]_vars

(***************************************************************************)
(* The settings panel (App.tsx and components/Settings.tsx, kept in        *)
(* src/unnamed/part_001).  frame holds the state of the App component and  *)
(* of the panel; settings is what getDetectionSettings returns, that is    *)
(* the stored settings, or the defaults while nothing is stored.           *)
(***************************************************************************)
\* handleHybridToggle without the reset of useCraftPrimary
HybridToggledKeepsPrimary(current, enabled) ==
    [current EXCEPT !.useHybridDetection = enabled]

\* newSettings of handleHybridToggle
HybridToggled(current, enabled) ==
    IF enabled THEN [current EXCEPT !.useHybridDetection = TRUE]
    ELSE [current EXCEPT !.useHybridDetection = FALSE,
                         !.useCraftPrimary = FALSE]

\* saveDetectionSettings: localStorage.setItem stores the settings, or
\* throws and the catch leaves the stored settings as they were
saveDetectionSettings(newSettings) ==
    \/ settings' = newSettings /\ faults' = faults
    \/ Spend("setItem") /\ settings' = settings

\* setSettings(newSettings); saveDetectionSettings(newSettings)
SetAndSave(newSettings) ==
    /\ frame' = [frame EXCEPT !.settings = newSettings]
    /\ saveDetectionSettings(newSettings)
    /\ UNCHANGED <<pc, call, ret, calls, conversion>>

\* the checkbox of the panel hands over the negation of what it shows
handleHybridToggle ==
    /\ frame.isOpen
    /\ SetAndSave(HybridToggled(frame.settings,
                                ~frame.settings.useHybridDetection))

\* the two inner checkboxes are rendered only while hybrid detection is on
handleCraftPrimaryToggle ==
    /\ frame.isOpen /\ frame.settings.useHybridDetection
    /\ SetAndSave([frame.settings EXCEPT !.useCraftPrimary = ~@])

handleDBNetToggle ==
    /\ frame.isOpen /\ frame.settings.useHybridDetection
    /\ SetAndSave([frame.settings EXCEPT !.useDBNet = ~@])

\* the settings button opens the panel, its close button closes it
SetIsOpen ==
    /\ frame' = [frame EXCEPT !.isOpen = ~@]
    /\ UNCHANGED <<pc, call, ret, calls, faults, settings, conversion>>

InitSettings ==
    /\ pc = "App"
    /\ call = None
    /\ ret = None
    /\ calls = <<>>
    /\ faults = MaxFaults
    /\ settings = DEFAULT_SETTINGS
    /\ frame = [settings |-> settings, isOpen |-> FALSE]
    /\ conversion = NoConversion

SpecSettings ==
    InitSettings /\ [][\/ handleHybridToggle
                       \/ handleCraftPrimaryToggle
                       \/ handleDBNetToggle
                       \/ SetIsOpen]_vars

(***************************************************************************)
(* A conversion during which the user works the settings panel.  The panel *)
(* is rendered and enabled whatever the conversion does (App.tsx:105-112), *)
(* and a handler runs whenever processConversion is suspended in an await. *)
(* Its save succeeds, so that the stored settings are those of the panel.  *)
(***************************************************************************)
ToggleWhileConverting ==
    /\ InLoop
    /\ \E enabled \in BOOLEAN :
          \/ settings' = HybridToggled(settings, enabled)
          \/ /\ settings.useHybridDetection
             /\ settings' = [settings EXCEPT !.useCraftPrimary = enabled]
          \/ /\ settings.useHybridDetection
             /\ settings' = [settings EXCEPT !.useDBNet = enabled]
    /\ settings' # settings
    /\ UNCHANGED <<pc, call, ret, frame, calls, faults, conversion>>

SpecConversionToggled ==
    InitConversion /\ [][NextConversion \/ ToggleWhileConverting]_vars

(***************************************************************************)
(* C1: mergeDetections conserves its inputs: mergedCount is the length of  *)
(* mergedElements and equals claudeOnlyCount + craftOnlyCount +            *)
(* overlapCount, and overlapCount is at most min(|A|, |B|).                *)
(***************************************************************************)
MergeConservation ==
    pc = "returned" =>
        /\ ret.mergedCount = Len(ret.mergedElements)
        /\ ret.mergedCount = ret.claudeOnlyCount + ret.craftOnlyCount
                             + ret.overlapCount
        /\ ret.overlapCount <= Min(Len(call.claudeElements),
                                   Len(call.craftElements))

\* two Claude elements compete for one CRAFT box: one match, one pass-through
MergeConservationWitness ==
    /\ pc = "returned"
    /\ Len(call.claudeElements) = 2
    /\ Len(call.craftElements) = 1
    /\ ret.overlapCount = 1
    /\ ret.claudeOnlyCount = 1
    /\ ret.mergedCount = 2
    /\ \A k \in 1..2 :
          IoUAtLeast(calculateIoU(BoxOf(call.claudeElements[k]),
                                  BoxOf(call.craftElements[1])),
                     call.overlapThreshold)

(***************************************************************************)
(* C2: after filterOverlappingDetections at threshold t no two distinct    *)
(* elements of the returned list have IoU >= t.                            *)
(***************************************************************************)
DedupInvariant ==
    pc = "returned" =>
        \A i, j \in 1..Len(ret.filtered) :
            i # j => ~IoUAtLeast(calculateIoU(BoxOf(ret.filtered[i]),
                                              BoxOf(ret.filtered[j])),
                                 call.overlapThreshold)

\* a pass that removed an element and kept two, with a positive threshold
DedupInvariantWitness ==
    /\ pc = "returned"
    /\ call.overlapThreshold.num > 0
    /\ Len(call.elements) = 3
    /\ Len(ret.filtered) = 2
    /\ \E i, j \in 1..3 :
          /\ i # j
          /\ IoUAtLeast(calculateIoU(BoxOf(call.elements[i]),
                                     BoxOf(call.elements[j])),
                        call.overlapThreshold)
(***************************************************************************)
(* C4: after normalizeCoordinates every element that was assigned a region *)
(* (the first region containing its centre) lies fully inside that         *)
(* region's canvas rectangle, for every region size.                       *)
(***************************************************************************)
InsideRegion(element, region) ==
    LET r == RegionInches(region)
    IN  /\ r.x <= element.position_x
        /\ element.position_x + element.width <= r.x + r.width
        /\ r.y <= element.position_y
        /\ element.position_y + element.height <= r.y + r.height

ContainmentInvariant ==
    pc = "returned" =>
        \A idx \in 1..Len(call.textElements) :
            LET k == findContainingRegion(call.textElements[idx], call.regions)
            IN  k # 0 => InsideRegion(ret.normalized[idx], call.regions[k])

\* the same when neither the element nor its region is smaller than 0.1 in
ContainmentOfLargeElements ==
    pc = "returned" =>
        \A idx \in 1..Len(call.textElements) :
            LET element == call.textElements[idx]
                k == findContainingRegion(element, call.regions)
            IN  (/\ k # 0
                 /\ element.width >= MinSize /\ element.height >= MinSize
                 /\ RegionInches(call.regions[k]).width >= MinSize
                 /\ RegionInches(call.regions[k]).height >= MinSize)
                => InsideRegion(ret.normalized[idx], call.regions[k])

\* an element wider than its region was cut down to the region
ContainmentWitness ==
    /\ pc = "returned"
    /\ \E idx \in 1..Len(call.textElements) :
          LET k == findContainingRegion(call.textElements[idx], call.regions)
          IN  /\ k # 0
              /\ ret.normalized[idx] # call.textElements[idx]
              /\ InsideRegion(ret.normalized[idx], call.regions[k])
(***************************************************************************)
(* C3: every text element returned by performHybridDetection, in every     *)
(* mode and after any fallback, lies on the slide: 0 <= position_x,        *)
(* position_x + width <= 10 in, 0 <= position_y and position_y + height    *)
(* <= 5.625 in, whatever coordinates the detectors returned.               *)
(***************************************************************************)
OnSlide(element) ==
    /\ 0 <= element.position_x
    /\ element.position_x + element.width <= SLIDE_WIDTH
    /\ 0 <= element.position_y
    /\ element.position_y + element.height <= SLIDE_HEIGHT

BoundsInvariant ==
    pc = "done" =>
        \A k \in 1..Len(ret.analysis.textElements) :
            OnSlide(ret.analysis.textElements[k])

\* a dual-source run returned the element of a detector box that reaches
\* beyond the right edge of the image
BoundsWitness ==
    /\ pc = "done"
    /\ call.useHybrid /\ ~IsPrimary(call)
    /\ \E k \in 1..Len(ret.analysis.textElements) :
          LET element == ret.analysis.textElements[k]
          IN  /\ element.position_x + element.width > SLIDE_WIDTH
              /\ \E b \in 1..Len(call.imageBlob.boxes) :
                    BoxOf(element)
                    = convertBoxToCoordinates(call.imageBlob.boxes[b],
                                              call.imageWidth, call.imageHeight)

(***************************************************************************)
(* C5: in primary-detector mode, when the geometry-only detector returns   *)
(* an error (a timeout included) or no box, the orchestrator runs the      *)
(* single-source pipeline and returns exactly its text elements and        *)
(* regions, with craftCount = 0 and overlapCount = 0.                      *)
(***************************************************************************)
IsDetectorCall(entry) ==
    entry[1] \in {"detectTextWithCRAFT", "detectTextWithDBNet"}

\* the detector call logged in entry failed, or answered without boxes or
\* with a warning
DetectorFailed(entry) ==
    /\ IsDetectorCall(entry)
    /\ \/ entry[2] # "ok"
       \/ call.imageBlob.warning
       \/ Len(call.imageBlob.boxes) = 0

RanPipelineAfterDetector ==
    /\ Len(calls) >= 2
    /\ calls[2][1] = "detectLayoutRegions"

PrimaryFallback ==
    (IsPrimary(call) /\ calls # <<>> /\ DetectorFailed(calls[1])) =>
        /\ frame.caller = "fallback"
        /\ pc = "done" =>
              /\ RanPipelineAfterDetector
              /\ ret.analysis.textElements = frame.claudeElements
              /\ ret.regions = frame.regions
              /\ ret.detectionStats.craftCount = 0
              /\ ret.detectionStats.overlapCount = 0

\* the detector timed out and the fallback found regions and text
PrimaryFallbackWitness ==
    /\ pc = "done"
    /\ IsPrimary(call)
    /\ calls[1][2] = "timeout"
    /\ Len(ret.regions) > 0
    /\ Len(ret.analysis.textElements) > 0
    /\ ret.detectionStats.craftCount = 0

(***************************************************************************)
(* C6: in dual-source merge mode, when the geometry-only detector returns  *)
(* an error or no box, performHybridDetection returns exactly the          *)
(* content-aware list A with claudeCount = mergedCount = claudeOnlyCount   *)
(* = |A| and craftCount = overlapCount = craftOnlyCount = 0, and does not  *)
(* raise.                                                                  *)
(***************************************************************************)
IsDualSource(args) == args.useHybrid /\ ~IsPrimary(args)

DualSourceFallback ==
    (IsDualSource(call) /\ calls # <<>> /\ DetectorFailed(calls[Len(calls)])) =>
        /\ pc = "done"
        /\ ret.analysis.textElements = frame.claudeElements
        /\ ret.detectionStats
           = Stats(Len(frame.claudeElements), 0, Len(frame.claudeElements),
                   0, Len(frame.claudeElements), 0)

\* the detector answered with boxes and a warning after both regions of the
\* slide were read
DualSourceFallbackWitness ==
    /\ pc = "done"
    /\ IsDualSource(call)
    /\ calls[Len(calls)][2] = "ok"
    /\ call.imageBlob.warning
    /\ Len(call.imageBlob.boxes) > 0
    /\ Len(ret.analysis.textElements) = 2

(***************************************************************************)
(* C7: per-slide detection always terminates: every external call of the   *)
(* orchestrator is bounded by a timeout, so performHybridDetection          *)
(* eventually returns even if a service never responds.                     *)
(***************************************************************************)
Returned == pc \in {"done", "threw"}

DetectionTerminates == <>Returned

\* the part of C7 that holds: a pending CRAFT / DBNet request is always left
DetectorCallBounded == (pc = "detectText.fetch") ~> (pc # "detectText.fetch")

\* the timer of the detector fired and the call returned without an answer
DetectorTimedOut ==
    /\ pc = "done"
    /\ \E k \in 1..Len(calls) : IsDetectorCall(calls[k]) /\ calls[k][2] = "timeout"

(***************************************************************************)
(* C8: no failure inside a detector or OCR adapter, a failure to read or   *)
(* encode the image blob included, leaves performHybridDetection as an     *)
(* exception.                                                              *)
(***************************************************************************)
NeverThrows == pc # "threw"

\* a failure that is turned into an empty result: the layout service
\* answers with an error and the call still returns
ErrorsAreData ==
    /\ pc = "done"
    /\ <<"detectLayoutRegions", "error">> \in {calls[k] : k \in 1..Len(calls)}

(***************************************************************************)
(* C9: in processConversion a detector failure while slide i is processed  *)
(* does not affect a later slide: every slide after i is still analysed.   *)
(***************************************************************************)
Analyzed(slideNumber) ==
    \E k \in 1..Len(conversion.slideElements) :
        conversion.slideElements[k].slideNumber = slideNumber

\* a call of a detection or recognition adapter failed for the current slide
DetectionFailedForSlide ==
    \E k \in 1..Len(calls) :
        calls[k][1] # "createImageFromBlob" /\ calls[k][2] # "ok"

LoopOver == conversion.status \in {"generating", "failed"}

LaterSlidesAnalyzed ==
    (LoopOver /\ DetectionFailedForSlide) =>
        \A j \in (conversion.i + 1)..Len(conversion.slideImages) : Analyzed(j)

\* a failure the adapters catch: a call failed for the first slide (a fault
\* was spent, none of them by the second slide) and both slides were saved
LaterSlideSaved ==
    /\ conversion.status = "generating"
    /\ Len(conversion.slideImages) = 2
    /\ faults < MaxFaults
    /\ \A k \in 1..Len(calls) : calls[k][2] = "ok"
    /\ Analyzed(1) /\ Analyzed(2)

(***************************************************************************)
(* C10: in primary-detector mode every grouped detector box yields exactly *)
(* one element of the final list, boxes whose recognition returned empty   *)
(* content included.                                                       *)
(***************************************************************************)
PrimaryKeepsEveryBox ==
    (pc = "done" /\ IsPrimary(call) /\ frame.caller # "fallback") =>
        Len(ret.analysis.textElements) = Len(frame.boxes)

\* the recognition failed for a box and its placeholder was kept
PlaceholderKept ==
    /\ pc = "done"
    /\ IsPrimary(call)
    /\ frame.caller # "fallback"
    /\ \E k \in 1..Len(ret.analysis.textElements) :
          ret.analysis.textElements[k].content = RegionLabel(k)

(***************************************************************************)
(* C11: clampToSlideBounds (and clampCoordinates) is idempotent: applied   *)
(* to its own output it returns the same rectangle, for every rectangle,   *)
(* negative and out-of-range values included.                              *)
(***************************************************************************)
ClampedTwice ==
    pc \in {"clampToSlideBounds.returned.again",
            "clampCoordinates.returned.again"}

ClampIdempotent == ClampedTwice => ret = call

\* a rectangle that the first application changed in origin and in size
ClampIdempotentWitness ==
    /\ pc = "clampToSlideBounds.returned.again"
    /\ ret = call
    /\ ret.x = SLIDE_WIDTH
    /\ ret.y = 0
    /\ ret.width = MinSize
    /\ ret.height = SLIDE_HEIGHT

(***************************************************************************)
(* C12: for every input rectangle clampToSlideBounds (and                   *)
(* clampCoordinates) returns a rectangle with 0 <= x <= 10,                *)
(* 0 <= y <= 5.625, width >= 0.1, height >= 0.1, x + width <= 10 and       *)
(* y + height <= 5.625.                                                    *)
(***************************************************************************)
ClampReturned == pc \notin {"clampToSlideBounds", "clampCoordinates"}

ClampStaysOnCanvas ==
    ClampReturned =>
        /\ 0 <= ret.x /\ ret.x <= SLIDE_WIDTH
        /\ 0 <= ret.y /\ ret.y <= SLIDE_HEIGHT
        /\ ret.width >= MinSize /\ ret.height >= MinSize
        /\ ret.x + ret.width <= SLIDE_WIDTH
        /\ ret.y + ret.height <= SLIDE_HEIGHT

\* the part of C12 that holds for every rectangle
ClampOriginAndMinimum ==
    ClampReturned =>
        /\ 0 <= ret.x /\ ret.x <= SLIDE_WIDTH
        /\ 0 <= ret.y /\ ret.y <= SLIDE_HEIGHT
        /\ ret.width >= MinSize /\ ret.height >= MinSize

\* a rectangle reaching beyond the canvas is shrunk to end on its edge
ClampShrinks ==
    /\ pc = "clampCoordinates.returned"
    /\ call.x = 4800 /\ call.width = 9696
    /\ ret.x = 4800 /\ ret.width = 4800

(***************************************************************************)
(* C13: calculateIoU (and calculateRegionIoU) returns exactly 1 when both  *)
(* arguments are the same rectangle, for every rectangle.                  *)
(***************************************************************************)
IsOne(f) == f.num = f.den /\ f.den > 0

SameRectangle == pc = "returned" /\ call.box1 = call.box2

IoUSymmetric == pc = "returned" => ret.iou = ret.swapped

\* two different rectangles that overlap in part
IoUSymmetricWitness ==
    /\ pc = "returned"
    /\ call.box1 # call.box2
    /\ call.box1.width * call.box1.height # call.box2.width * call.box2.height
    /\ ret.iou.num > 0
    /\ ret.iou = ret.swapped

(***************************************************************************)
(* C15: for every combination of the three flags exactly one detection     *)
(* pipeline runs per slide: content-aware only when useHybridDetection is  *)
(* false; dual-source merge when it is true and useCraftPrimary is false,  *)
(* with CRAFT or DBNet as the detector according to useDBNet; primary mode *)
(* when both are true, CRAFT-primary or DBNet-primary according to         *)
(* useDBNet.                                                               *)
(***************************************************************************)
SlideCalls(names) == {k \in 1..Len(calls) : calls[k][1] \in names}

ContentAwareAdapters ==
    {"detectLayoutRegions", "performOCROnRegion", "analyzeSlideImage"}

SelectedDetector ==
    IF settings.useDBNet THEN "detectTextWithDBNet" ELSE "detectTextWithCRAFT"

OtherDetector ==
    IF settings.useDBNet THEN "detectTextWithCRAFT" ELSE "detectTextWithDBNet"

\* a slide is being analysed, or its analysis just ended
SlideInProgress ==
    /\ conversion.i > 0
    /\ calls # <<>>
    /\ calls[1][1] # "createImageFromBlob"

ModeSelection ==
    SlideInProgress =>
        /\ SlideCalls({OtherDetector}) = {}
        /\ Cardinality(SlideCalls({SelectedDetector})) <= 1
        /\ IF ~settings.useHybridDetection
           THEN SlideCalls(ContentAwareAdapters) = 1..Len(calls)
           ELSE IF ~settings.useCraftPrimary
           THEN /\ calls[1][1] = "detectLayoutRegions"
                /\ SlideCalls({"performOCROnSingleBox"}) = {}
                /\ pc = "done" => calls[Len(calls)][1] = SelectedDetector
           ELSE /\ calls[1][1] = SelectedDetector
                /\ SlideCalls(ContentAwareAdapters) # {} =>
                      /\ DetectorFailed(calls[1])
                      /\ SlideCalls({"performOCROnSingleBox"}) = {}

\* DBNet as the detector of the dual-source merge: the content-aware
\* pipeline ran first, then DBNet answered
ModeSelectionWitness ==
    /\ pc = "done"
    /\ settings = [useHybridDetection |-> TRUE, useCraftPrimary |-> FALSE,
                   useDBNet |-> TRUE]
    /\ conversion.i = 2
    /\ calls[1] = <<"detectLayoutRegions", "ok">>
    /\ calls[Len(calls)] = <<"detectTextWithDBNet", "ok">>
    /\ ret.detectionStats.craftCount > 0

\* hybrid detection off with both other flags on: content-aware only
ContentAwareDespiteFlags ==
    /\ pc = "done"
    /\ settings = [useHybridDetection |-> FALSE, useCraftPrimary |-> TRUE,
                   useDBNet |-> TRUE]
    /\ Len(calls) >= 2

(***************************************************************************)
(* C16: starting from the default settings, after any sequence of toggles  *)
(* the panel offers, useCraftPrimary implies useHybridDetection, in the    *)
(* in-memory and in the persisted settings.                                *)
(***************************************************************************)
PrimaryNeedsHybrid(current) ==
    current.useCraftPrimary => current.useHybridDetection

SettingsConsistent ==
    PrimaryNeedsHybrid(frame.settings) /\ PrimaryNeedsHybrid(settings)

\* CRAFT-primary was switched on and stored, then hybrid detection was
\* switched off: the component dropped CRAFT-primary, and the stored copy
\* still shows that it had been on because the last save was not stored
HybridOffAfterPrimary ==
    /\ settings.useCraftPrimary
    /\ ~frame.settings.useHybridDetection
    /\ ~frame.settings.useCraftPrimary

(***************************************************************************)
(* C17: in mergeDetections each element a of A, in A's order, is matched   *)
(* to the not yet consumed element of B with the highest IoU among those   *)
(* with IoU >= threshold, the lowest index winning a tie, or to none; no   *)
(* element of B is matched to more than one element of A.                  *)
(***************************************************************************)
IoUOf(a, b) == calculateIoU(BoxOf(a), BoxOf(b))

\* the index the rule gives a, 0 for none
RuleMatch(a, B, consumed, t) ==
    LET Q == {i \in 1..Len(B) \ consumed : IoUAtLeast(IoUOf(a, B[i]), t)}
    IN  IF Q = {} THEN 0
        ELSE CHOOSE i \in Q :
                \A j \in Q :
                    /\ ~FracLt(IoUOf(a, B[i]).num, IoUOf(a, B[i]).den,
                               IoUOf(a, B[j]).num, IoUOf(a, B[j]).den)
                    /\ j < i => FracLt(IoUOf(a, B[j]).num, IoUOf(a, B[j]).den,
                                       IoUOf(a, B[i]).num, IoUOf(a, B[i]).den)

RECURSIVE RuleMatching(_, _, _, _, _)
RuleMatching(A, B, t, k, consumed) ==
    IF k > Len(A) THEN <<>>
    ELSE LET m == RuleMatch(A[k], B, consumed, t)
         IN  <<m>> \o RuleMatching(A, B, t, k + 1,
                                   IF m = 0 THEN consumed ELSE consumed \cup {m})

MatchingOfCall ==
    RuleMatching(call.claudeElements, call.craftElements,
                 call.overlapThreshold, 1, {})

GreedyMatching ==
    pc = "returned" =>
        LET A == call.claudeElements
            B == call.craftElements
            m == MatchingOfCall
        IN  /\ \A k \in 1..Len(A) :
                  ret.mergedElements[k]
                  = IF m[k] = 0 THEN A[k] ELSE MergedElement(A[k], B[m[k]])
            /\ \A k, l \in 1..Len(A) : (k # l /\ m[k] # 0) => m[k] # m[l]
            /\ ret.overlapCount = Cardinality({k \in 1..Len(A) : m[k] # 0})

\* "Hello" overlaps [Text 4] and [Text 2] equally: the first of them is
\* consumed and the second is left for "World"
GreedyMatchingWitness ==
    /\ pc = "returned"
    /\ Len(call.claudeElements) = 2 /\ Len(call.craftElements) = 2
    /\ call.claudeElements[1].content = "Hello"
    /\ call.claudeElements[2].content = "World"
    /\ call.craftElements[1].content = "[Text 4]"
    /\ call.craftElements[2].content = "[Text 2]"
    /\ call.overlapThreshold = [num |-> 1, den |-> 2]
    /\ MatchingOfCall = <<1, 2>>
    /\ ret.mergedElements[1].position_y = 5
    /\ ret.overlapCount = 2

(***************************************************************************)
(* C18: for every matched pair (a, b) of mergeDetections the emitted       *)
(* element has x, y, width and height equal to the arithmetic mean of a's  *)
(* and b's, content and style equal to a's, and confidence equal to        *)
(* max(a.confidence, b.confidence) with a missing confidence counted as 0, *)
(* so that the merged confidence is always a defined number.               *)
(***************************************************************************)
MergedOfPair(e, a, b) ==
    /\ 2 * e.position_x = a.position_x + b.position_x
    /\ 2 * e.position_y = a.position_y + b.position_y
    /\ 2 * e.width = a.width + b.width
    /\ 2 * e.height = a.height + b.height
    /\ e.content = a.content
    /\ e.style = a.style
    /\ e.confidence_score # Undef
    /\ e.confidence_score
       = Max(IF a.confidence_score = Undef THEN 0 ELSE a.confidence_score,
             IF b.confidence_score = Undef THEN 0 ELSE b.confidence_score)

MergedElementRule ==
    pc = "returned" =>
        \A k \in 1..Len(call.claudeElements) :
            MatchingOfCall[k] # 0 =>
                MergedOfPair(ret.mergedElements[k], call.claudeElements[k],
                             call.craftElements[MatchingOfCall[k]])

\* "World" and [Text 2] both lack a confidence: the merged element has 0,
\* the text and style of "World" and the rectangle half way between them
MergedElementWitness ==
    /\ pc = "returned"
    /\ Len(call.claudeElements) = 1 /\ Len(call.craftElements) = 1
    /\ call.claudeElements[1].confidence_score = Undef
    /\ call.craftElements[1].confidence_score = Undef
    /\ MatchingOfCall = <<1>>
    /\ ret.mergedElements[1].confidence_score = 0
    /\ ret.mergedElements[1].content = "World"
    /\ ret.mergedElements[1].position_x = 15

(***************************************************************************)
(* C19: in both dedup passes, for every compared pair whose IoU exceeds    *)
(* the duplicate threshold the rectangle with the smaller area is the one  *)
(* removed, and on equal areas the one with the lower confidence.          *)
(***************************************************************************)
IsRegionCall == "regions" \in DOMAIN call

DedupInput == IF IsRegionCall THEN call.regions ELSE call.elements

DuplicatePair(i, j) ==
    IF IsRegionCall
    THEN IoUAbove(calculateRegionIoU(call.regions[i], call.regions[j]),
                  RegionDedupThreshold)
    ELSE IoUAtLeast(IoUOf(call.elements[i], call.elements[j]),
                    call.overlapThreshold)

AreaAt(i) == DedupInput[i].width * DedupInput[i].height

ConfidenceAt(i) ==
    IF IsRegionCall THEN call.regions[i].confidence
    ELSE IF call.elements[i].confidence_score = Undef THEN 0
    ELSE call.elements[i].confidence_score

\* the rule of C19: p stays and r goes
LargerStays(p, r) ==
    \/ AreaAt(p) > AreaAt(r)
    \/ AreaAt(p) = AreaAt(r) /\ ConfidenceAt(p) >= ConfidenceAt(r)

\* the rule of the code: the higher confidence stays among text elements,
\* the larger area among regions, and the earlier one when they are equal
EarlierOrBetterStays(p, r) ==
    LET rank(i) == IF IsRegionCall THEN AreaAt(i) ELSE ConfidenceAt(i)
    IN  rank(p) > rank(r) \/ (rank(p) = rank(r) /\ p < r)

\* every removed index lost against a duplicate of it, and an index that
\* stays leaves no later duplicate of it (the later one may have lost
\* against a third one before the two were compared)
RemovalFollows(Stays(_, _)) ==
    (pc = "returned") =>
        /\ \A r \in ret.toRemove :
              \E p \in 1..Len(DedupInput) :
                  p # r /\ DuplicatePair(p, r) /\ Stays(p, r)
        /\ \A i, j \in 1..Len(DedupInput) :
              (i < j /\ i \notin ret.toRemove /\ DuplicatePair(i, j)) =>
                  j \in ret.toRemove

LaterRegionRemoved ==
    /\ pc = "returned"
    /\ IsRegionCall
    /\ Len(call.regions) = 2
    /\ AreaAt(1) = AreaAt(2)
    /\ ConfidenceAt(1) < ConfidenceAt(2)
    /\ ret.toRemove = {2}

(***************************************************************************)
(* C20: the elements that survive filterOverlappingDetections and          *)
(* deduplicateRegions do not depend on the order of the input list: every  *)
(* permutation of the list has the same survivors, and the survivors       *)
(* appear in their original relative order.                                *)
(***************************************************************************)
Range(s) == {s[k] : k \in DOMAIN s}

Permuted(q) == [k \in 1..Len(DedupInput) |-> DedupInput[q[k]]]

SurvivorsOf(list) ==
    IF IsRegionCall THEN deduplicateRegions(list)
    ELSE filterOverlappingDetections(list, call.overlapThreshold)

RECURSIVE IsSubsequence(_, _)
IsSubsequence(s, t) ==
    IF s = <<>> THEN TRUE
    ELSE IF t = <<>> THEN FALSE
    ELSE IF Head(s) = Head(t) THEN IsSubsequence(Tail(s), Tail(t))
    ELSE IsSubsequence(s, Tail(t))

SurvivorsInOrder ==
    (pc = "returned") => IsSubsequence(ret.filtered, DedupInput)

OrderIndependent ==
    (pc = "returned") =>
        /\ \A q \in Permutations(1..Len(DedupInput)) :
              Range(SurvivorsOf(Permuted(q))) = Range(ret.filtered)
        /\ SurvivorsInOrder

\* "f" beats "c" and "c" beats "a", while "f" and "a" are no duplicates:
\* with "f" first "c" is removed before it meets "a"; with "c" first it
\* removes "a" and is then removed by "f"
ChainDependsOnOrder ==
    /\ pc = "returned"
    /\ ~IsRegionCall
    /\ Len(call.elements) = 3
    /\ call.elements[1].content = "f"
    /\ call.elements[2].content = "c"
    /\ call.elements[3].content = "a"
    /\ ret.toRemove = {2}
    /\ Len(SurvivorsOf(<<call.elements[2], call.elements[3],
                         call.elements[1]>>)) = 1

\* two duplicate regions of equal area: whichever comes first survives
TieDependsOnOrder ==
    /\ pc = "returned"
    /\ IsRegionCall
    /\ Len(call.regions) = 2
    /\ ret.filtered = <<call.regions[1]>>
    /\ SurvivorsOf(<<call.regions[2], call.regions[1]>>) = <<call.regions[2]>>
    /\ call.regions[1] # call.regions[2]

(***************************************************************************)
(* C21: in dual-source merge mode every geometry-only element the merge    *)
(* left unmatched is appended after all A-derived elements, in B's order,  *)
(* as-is: with the geometry and the placeholder content it received when   *)
(* converted from the detector box, never with text or style of an A       *)
(* element.                                                                *)
(***************************************************************************)
\* the detector answered well and the merge phase produced the result
MergeRan ==
    /\ pc = "done"
    /\ IsDualSource(call)
    /\ calls # <<>>
    /\ IsDetectorCall(calls[Len(calls)])
    /\ ~DetectorFailed(calls[Len(calls)])

\* B as converted from the grouped boxes of the detector's answer
ConvertedOfCall ==
    IF call.useDBNet
    THEN convertDBNetBoxesToTextElements(mergeBoxesToLines(call.imageBlob.boxes),
                                         call.imageWidth, call.imageHeight)
    ELSE convertCraftBoxesToTextElements(
             mergeCharacterBoxesToWords(call.imageBlob.boxes),
             call.imageWidth, call.imageHeight)

\* the elements of B that the matching rule gives to no element of A
UnmatchedOfCall ==
    LET A == frame.claudeElements
        B == ConvertedOfCall
        m == RuleMatching(A, B, MergeThreshold, 1, {})
    IN  UnmatchedFrom(B, {m[k] : k \in 1..Len(A)}, 1)

UnmatchedAppendedAsIs ==
    MergeRan =>
        LET A == frame.claudeElements
            out == ret.analysis.textElements
        IN  /\ Len(out) = Len(A) + Len(UnmatchedOfCall)
            /\ SubSeq(out, Len(A) + 1, Len(out)) = UnmatchedOfCall

\* the caption box meets no A element and is appended with its placeholder
PlaceholderAppended ==
    /\ MergeRan
    /\ call.imageBlob.name = "titleAndBody"
    /\ Len(frame.claudeElements) = 2
    /\ Len(UnmatchedOfCall) = 1
    /\ ret.analysis.textElements[3] = UnmatchedOfCall[1]

(***************************************************************************)
(* C22: enrichCraftElementsWithClaudeOCR(B, A, t) returns a list of the    *)
(* length and order of B in which every element keeps B's position, size   *)
(* and confidence; content and style are those of the first A element, in  *)
(* A's order, with IoU >= t, and unchanged when there is none; A elements  *)
(* are not consumed, so one of them may donate to several B elements.      *)
(***************************************************************************)
\* the A elements that reach the threshold with B[k]
Donors(k) ==
    {i \in 1..Len(call.claudeElements) :
        IoUAtLeast(IoUOf(call.craftElements[k], call.claudeElements[i]),
                   call.overlapThreshold)}

FirstDonor(k) == CHOOSE i \in Donors(k) : \A j \in Donors(k) : i <= j

EnrichRule ==
    (pc = "returned") =>
        LET B == call.craftElements
            A == call.claudeElements
            out == ret.enrichedElements
        IN  /\ Len(out) = Len(B)
            /\ \A k \in 1..Len(B) :
                  /\ BoxOf(out[k]) = BoxOf(B[k])
                  /\ out[k].confidence_score = B[k].confidence_score
                  /\ out[k].detection_source = B[k].detection_source
                  /\ IF Donors(k) = {} THEN out[k] = B[k]
                     ELSE /\ out[k].content = A[FirstDonor(k)].content
                          /\ out[k].style = A[FirstDonor(k)].style

\* "World" and "Hello" both reach the threshold with [Text 2]; "World"
\* comes first and donates to [Text 2] and to [Text 4]
EnrichRuleWitness ==
    /\ pc = "returned"
    /\ Len(call.craftElements) = 2 /\ Len(call.claudeElements) = 2
    /\ call.claudeElements[1].content = "World"
    /\ call.claudeElements[2].content = "Hello"
    /\ Donors(1) = {1, 2} /\ Donors(2) = {1, 2}
    /\ call.craftElements[1] # call.craftElements[2]
    /\ ret.enrichedElements[1].content = "World"
    /\ ret.enrichedElements[2].content = "World"

(***************************************************************************)
(* C23: normalizeCoordinates assigns each element to at most one region,   *)
(* the first region in list order whose canvas rectangle contains the      *)
(* element's centre point, boundaries included, and returns the element    *)
(* with x, y, width and height unchanged when no region contains its       *)
(* centre.                                                                 *)
(***************************************************************************)
\* the centre of e lies in the rectangle of the region, scaled from the
\* 1920 x 1080 reference to the canvas; both sides are multiplied out
CentreWithin(e, region) ==
    /\ (2 * e.position_x + e.width) * RefWidth >= 2 * region.x * SLIDE_WIDTH
    /\ (2 * e.position_x + e.width) * RefWidth
       <= 2 * (region.x + region.width) * SLIDE_WIDTH
    /\ (2 * e.position_y + e.height) * RefHeight >= 2 * region.y * SLIDE_HEIGHT
    /\ (2 * e.position_y + e.height) * RefHeight
       <= 2 * (region.y + region.height) * SLIDE_HEIGHT

RegionsAround(e) ==
    {k \in 1..Len(call.regions) : CentreWithin(e, call.regions[k])}

FirstRegionAround(e) ==
    CHOOSE k \in RegionsAround(e) : \A j \in RegionsAround(e) : k <= j

FirstContainingRegion ==
    (pc = "returned") =>
        /\ Len(ret.normalized) = Len(call.textElements)
        /\ \A k \in 1..Len(call.textElements) :
              LET e == call.textElements[k]
              IN  ret.normalized[k]
                  = IF RegionsAround(e) = {} THEN e
                    ELSE normalizeWithinRegion(
                             e, call.regions[FirstRegionAround(e)])

\* the centre of "border" lies on the right edge of the first region and
\* inside no other; "inside" lies in both regions and is fitted to the
\* first, in which it already is
FirstContainingRegionWitness ==
    /\ pc = "returned"
    /\ Len(call.textElements) = 2 /\ Len(call.regions) = 2
    /\ call.textElements[1].content = "border"
    /\ call.textElements[2].content = "inside"
    /\ call.regions[1].type = "body" /\ call.regions[2].type = "shape"
    /\ RegionsAround(call.textElements[1]) = {1}
    /\ RegionsAround(call.textElements[2]) = {1, 2}
    /\ ret.normalized[1] # call.textElements[1]
    /\ ret.normalized[2] = call.textElements[2]

\* an element whose centre no region contains is returned as it came
OutsideUnchanged ==
    /\ pc = "returned"
    /\ Len(call.textElements) = 1 /\ Len(call.regions) = 2
    /\ RegionsAround(call.textElements[1]) = {}
    /\ ret.normalized = call.textElements

(***************************************************************************)
(* C24: alignElementsWithinRegions never changes which region an element   *)
(* belongs to: the region found for the element by centre-point,           *)
(* first-match containment is the same before and after alignment, and an  *)
(* element that had a region still has one.                                *)
(***************************************************************************)
\* the index of the first region around e, 0 for none
RegionOf(e) == IF RegionsAround(e) = {} THEN 0 ELSE FirstRegionAround(e)

AlignmentKeepsRegion ==
    (pc = "aligned") =>
        \A k \in 1..Len(ret.textElements) :
            RegionOf(ret.aligned[k]) = RegionOf(ret.textElements[k])

\* an element that normalizeCoordinates has fitted to its region is moved
\* off the region's edge by the margin and stays in the region
AlignedWithinRegion ==
    /\ pc = "aligned"
    /\ ret.afterNormalize
    /\ \E k \in 1..Len(ret.textElements) :
          /\ ret.aligned[k] # ret.textElements[k]
          /\ RegionOf(ret.textElements[k]) # 0
          /\ RegionOf(ret.aligned[k]) = RegionOf(ret.textElements[k])

\* the same elements lose their region, or change it, on the way
AlignedOutOfRegion ==
    /\ pc = "aligned"
    /\ ret.afterNormalize
    /\ \E k \in 1..Len(ret.textElements) :
          /\ RegionOf(ret.textElements[k]) # 0
          /\ RegionOf(ret.aligned[k]) # RegionOf(ret.textElements[k])

(***************************************************************************)
(* C25: for every source image size the containment normalizer converts    *)
(* each layout region's pixel rectangle to canvas units relative to that   *)
(* image's pixel width and height, with the pixel-to-canvas conversion     *)
(* that was applied to the text elements it is compared with.              *)
(***************************************************************************)
\* the region's rectangle under the conversion of the text elements
RegionByImageSize(region) ==
    [x |-> pixelsToInches(region.x, call.imageWidth, SLIDE_WIDTH),
     y |-> pixelsToInches(region.y, call.imageHeight, SLIDE_HEIGHT),
     width |-> pixelsToInches(region.width, call.imageWidth, SLIDE_WIDTH),
     height |-> pixelsToInches(region.height, call.imageHeight, SLIDE_HEIGHT)]

\* the regions the slide's elements were normalised against
RegionsScaledByImageSize ==
    \A k \in 1..Len(frame.regions) :
        RegionInches(frame.regions[k]) = RegionByImageSize(frame.regions[k])

\* on an image of 1920 x 1080 pixels the two conversions agree
ReferenceSizeAgrees ==
    /\ pc = "done"
    /\ call.imageWidth = RefWidth /\ call.imageHeight = RefHeight
    /\ Len(frame.regions) > 0
    /\ Len(frame.claudeElements) > 0
    /\ \A k \in 1..Len(frame.regions) :
          RegionInches(frame.regions[k]) = RegionByImageSize(frame.regions[k])

\* on the image of 960 x 540 pixels the region that covers the upper left
\* quarter of the image is taken for the upper left sixteenth of the canvas
HalfSizeRegionShrunk ==
    /\ pc = "done"
    /\ call.imageWidth = 960
    /\ Len(frame.regions) = 1
    /\ RegionByImageSize(frame.regions[1]).width = 4800
    /\ RegionInches(frame.regions[1]).width = 2400

(***************************************************************************)
(* C26: within one slide in dual-source mode the merge step starts only    *)
(* after layout detection, the OCR call of every text-bearing region and   *)
(* the geometry-only detection have all completed, successfully or as an   *)
(* error; merge is never run on a partial A or B list.                     *)
(***************************************************************************)
TextRegionCount ==
    Cardinality({k \in 1..Len(frame.regions) : frame.regions[k].contains_text})

MergeAfterAllCalls ==
    MergeRan =>
        /\ Len(calls) = TextRegionCount + 2
        /\ calls[1][1] = "detectLayoutRegions"
        /\ \A k \in 2..(TextRegionCount + 1) :
              calls[k][1] = "performOCROnRegion"
        /\ IsDetectorCall(calls[Len(calls)])

\* nothing is merged while a call is pending: the result appears in the
\* step in which the detector's answer arrives
MergeIsLastStep ==
    [][(pc' = "done" /\ pc # "done" /\ IsDualSource(call)) =>
           pc \in {"detectText", "detectText.fetch"}]_vars

\* two text regions, the OCR of the second one ends as an error, and the
\* merge runs after the detector's answer
MergeAfterFailedRegion ==
    /\ MergeRan
    /\ TextRegionCount = 2
    /\ calls[2] = <<"performOCROnRegion", "ok">>
    /\ calls[3] = <<"performOCROnRegion", "error">>
    /\ calls[4][2] = "ok"

(***************************************************************************)
(* C27: within one conversion every slide is processed with the            *)
(* detection-mode flags that were in effect when the conversion started:   *)
(* toggling and saving settings while processConversion is running does    *)
(* not change the mode used for the remaining slides.                      *)
(***************************************************************************)
\* the flags a slide's detection was called with
FlagsOf(args) ==
    IF "useHybrid" \in DOMAIN args
    THEN <<TRUE, args.useCraftPrimary, args.useDBNet>>
    ELSE <<FALSE>>

\* the detection of a slide after the first one is called
LaterSlideStarts ==
    /\ pc = "processConversion"
    /\ pc' \in {"performHybridDetection", "detectLayoutRegions"}
    /\ conversion.i >= 1

\* every later slide is processed with the flags of the slide before it,
\* hence with those of the first slide
SlidesKeepFlags ==
    [][LaterSlideStarts => FlagsOf(call') = FlagsOf(call)]_vars

\* the detection of the second slide is called with the flags that are
\* stored when its turn comes, here CRAFT- or DBNet-primary
SecondSlideSameFlags ==
    /\ conversion.i = 2
    /\ pc = "performHybridDetection"
    /\ Len(conversion.slideElements) = 1
    /\ FlagsOf(call) = <<TRUE, settings.useCraftPrimary, settings.useDBNet>>
    /\ settings.useCraftPrimary

(***************************************************************************)
(* C28: the detectionStats returned with every HybridDetectionResult, in   *)
(* every mode and after every fallback, describe the returned element      *)
(* list: mergedCount is the number of returned text elements and           *)
(* mergedCount = claudeOnlyCount + craftOnlyCount + overlapCount.          *)
(***************************************************************************)
\* performHybridDetection has returned its result
HybridReturned == pc = "done" /\ "detectionStats" \in DOMAIN ret

MergedCountIsLength ==
    HybridReturned =>
        ret.detectionStats.mergedCount = Len(ret.analysis.textElements)

CountsAddUp(stats) ==
    stats.mergedCount
    = stats.claudeOnlyCount + stats.craftOnlyCount + stats.overlapCount

StatsDescribeResult ==
    /\ MergedCountIsLength
    /\ HybridReturned => CountsAddUp(ret.detectionStats)

\* the line that DBNet reports twice is merged with one box, and the other
\* box is removed as a duplicate after it was counted
DuplicateCounted ==
    /\ MergeRan
    /\ call.imageBlob.name = "doubled"
    /\ Len(ret.analysis.textElements) = 1
    /\ ret.detectionStats.overlapCount = 1
    /\ ret.detectionStats.craftOnlyCount = 1

\* a dual-source result in which the counts add up: one element of A
\* merged with a box, one element of A alone and one box alone
StatsAddUpWitness ==
    /\ MergeRan
    /\ ret.detectionStats.overlapCount = 1
    /\ ret.detectionStats.claudeOnlyCount = 1
    /\ ret.detectionStats.craftOnlyCount = 1
    /\ Len(ret.analysis.textElements) = 3

(***************************************************************************)
(* C29: box grouping loses no detection: every box given to                *)
(* mergeBoxesToLines (or mergeCharacterBoxesToWords) is geometrically      *)
(* contained in at least one returned box, so a non-empty input gives a    *)
(* non-empty output with at most as many boxes as the input.               *)
(***************************************************************************)
GroupReturned ==
    pc \in {"mergeCharacterBoxesToWords.returned", "mergeBoxesToLines.returned"}

BoxWithin(box, group) ==
    /\ group.x <= box.x
    /\ group.y <= box.y
    /\ box.x + box.width <= group.x + group.width
    /\ box.y + box.height <= group.y + group.height

NoBoxLost ==
    GroupReturned =>
        /\ \A k \in 1..Len(call.boxes) :
              \E g \in 1..Len(ret.grouped) :
                  BoxWithin(call.boxes[k], ret.grouped[g])
        /\ Len(ret.grouped) <= Len(call.boxes)
        /\ Len(call.boxes) > 0 => Len(ret.grouped) > 0

\* three boxes become two groups, one of them larger than every box given
NoBoxLostWitness ==
    /\ GroupReturned
    /\ Len(call.boxes) = 3
    /\ Len(ret.grouped) = 2
    /\ \E g \in 1..2 :
          \A k \in 1..3 :
              /\ ret.grouped[g].width > call.boxes[k].width
              /\ ret.grouped[g].height > call.boxes[k].height

(***************************************************************************)
(* C30: in primary-detector mode the single-source fallback runs only if   *)
(* the geometry-only detector reported an error or returned no box: when   *)
(* it returns at least one box without error, the fallback is never        *)
(* invoked, whatever the per-box recognition calls return, and the regions *)
(* list of the result is empty.                                            *)
(***************************************************************************)
PrimaryDetectorSucceeded ==
    /\ IsPrimary(call)
    /\ calls # <<>>
    /\ IsDetectorCall(calls[1])
    /\ ~DetectorFailed(calls[1])

NoFallbackAfterBoxes ==
    PrimaryDetectorSucceeded =>
        /\ \A k \in 2..Len(calls) : calls[k][1] = "performOCROnSingleBox"
        /\ frame.caller # "fallback"
        /\ pc \in {"performOCROnSingleBox", "performOCROnSingleBox.fetch", "done"}
        /\ pc = "done" => ret.regions = <<>>

\* every recognition call failed: the result has no element and no region,
\* and the pipeline of the fallback was not called
NoFallbackAfterFailedRecognition ==
    /\ PrimaryDetectorSucceeded
    /\ pc = "done"
    /\ Len(calls) >= 3
    /\ \A k \in 2..Len(calls) : calls[k][2] # "ok"
    /\ ret.regions = <<>>
=============================================================================
